---- MODULE Spec2Model ----
(***************************************************************************)
(* IcanDownloader: the CZDS source client (czds_client.py), the job status *)
(* record (job_status.py) and the sequential job orchestrator              *)
(* (download_service.py), with the remote API and the storage as the       *)
(* environment.                                                            *)
(*                                                                         *)
(* A TLD is named by a number 1..MaxTlds.  Texts (error messages) are      *)
(* records [text, tld, cause]: the fixed wording, the TLD the message      *)
(* names (0: none) and the formatted cause (last_error, or "None").        *)
(***************************************************************************)
EXTENDS Integers, Sequences, FiniteSets, TLC

\* RetryConfig.max_retries
MaxRetries == 3
\* RetryConfig.base_delay and max_delay, in seconds
BaseDelay == 1
MaxDelay == 60
\* the sleep after a 429 without a Retry-After header, in seconds
DefaultRetryAfter == 60
InsertRetries == 5
\* parallel_processor.py consumer: max_retries = 3
ChunkRetries == 3
\* largest Retry-After header of the model, in seconds
MaxRetryAfter == 1
\* largest attempt number _calculate_backoff_delay is applied to
MaxAttempt == 7
\* number of TLD names of the model
MaxTlds == 2
\* DownloadService.large_file_threshold, in the model's file-size unit
LargeFileThreshold == 2
\* length of the approved list in the long-run specification
LongListLen == 50
\* records a zone file parses to, at most
MaxRecords == 3
\* DownloadService.batch_size and chunk_size, in records
BatchSize == 2
ChunkSize == 2
MaxLines == 4
NumWorkers == 2
MaxChunks == 5

VARIABLES
  client,         \* the CZDSClient: its token and the call in progress
  approved,       \* the remote API's list of approved TLDs
  job,            \* DownloadService._job_status
  pc,             \* per caller: where its run_full_download call is
  was_running,    \* per caller: what the check of is_running found
  tlds,           \* per caller: the list get_approved_tlds returned
  idx,            \* per caller: TLDs of the list done (the loop's i)
  successful, failed, total_records,   \* per caller: the loop's counters
  ret,            \* per caller: what the call returned
  exc,            \* per caller: the exception that left the try block
  calls,          \* per caller: the collaborators' methods the call has invoked
  processed,      \* per caller: the TLDs handed to download_single_tld, in order
  trace,          \* per caller: what download_single_tld did for the last TLD
  observe,        \* whether that record is kept
  par,            \* the ParallelDownloadService and its download_tlds_parallel calls
  cp,             \* a ChunkProcessor and its process_chunks_parallel call
  fn,             \* the function applied last, with its arguments and its result
  lk              \* DownloadService._lock and the threads' accesses to the JobStatus

vars == <<client, approved, job, pc, was_running, tlds, idx, successful, failed,
          total_records, ret, exc, calls, processed, trace, observe, par, cp, fn, lk>>
RunVars == <<approved, job, pc, was_running, tlds, idx, successful, failed,
             total_records, ret, exc, calls, processed, trace, observe, par, cp, fn, lk>>

TldNames == 1..MaxTlds
FileSizes == 0..LargeFileThreshold

RECURSIVE Pow2(_)
Pow2(n) == IF n <= 0 THEN 1 ELSE 2 * Pow2(n - 1)

NoMsg == [text |-> "None", tld |-> 0, cause |-> "None"]
Msg(text, tld, cause) == [text |-> text, tld |-> tld, cause |-> cause]

\* models/download_result.py: DownloadResult (records_count, status, error_message)
DownloadResult(tld, path, size, status, msg) ==
  [tld |-> tld, file_path |-> path, file_size |-> size, records_count |-> 0,
   status |-> status, error_message |-> msg]
NoResult == DownloadResult(0, "", 0, "None", NoMsg)

NoOut == [kind |-> "none", exc |-> "None", msg |-> NoMsg, result |-> NoResult, tlds |-> <<>>]

\* what a retry loop did after the last answer: the answer r to attempt k, with
\* its Retry-After header hdr (0 - 1: none), and the sleep the loop made of it
\* (by: "none", "backoff" or "retry_after"; secs)
Wait(r, k, hdr, by, secs) == [r |-> r, k |-> k, hdr |-> hdr, by |-> by, secs |-> secs]
NoWait == Wait("none", 0, 0 - 1, "none", 0)

\* the last 200 answer to download_zone_file: its Content-Length (0: absent or
\* zero), the bytes written to the file, and whether the file is on disk
NoBody == [expected_size |-> 0, actual_size |-> 0, on_disk |-> FALSE]

\* CZDSClient.__init__: no token, no call in progress
ClientInit ==
  [pc |-> "idle", op |-> "none", token |-> "none", tld |-> 0,
   attempt |-> 0, last_error |-> "None", gets |-> 0,
   auth_attempt |-> 0, auth_error |-> "None", auth_ctx |-> "none", posts |-> 0,
   notfound |-> FALSE, after_notfound |-> 0,
   au |-> NoWait, dl |-> NoWait, body |-> NoBody,
   out |-> NoOut]

\* the answers of the remote API to the three requests of the client
AuthStatuses == {"200", "401", "429", "500", "timeout", "neterr"}
ZoneStatuses == {"200", "200_mismatch", "200_ioerror", "404", "401", "429", "500",
                 "timeout", "neterr"}
ListStatuses == {"200", "401", "500", "timeout", "neterr"}

\* the text the retry loops keep in last_error for a failed attempt
ErrText(r) ==
  CASE r = "timeout" -> "Request timeout"
    [] r = "neterr" -> "network error"
    [] r = "200_ioerror" -> "File write error"
    [] OTHER -> "HTTP 500"

Return(c, result, links) ==
  [c EXCEPT !.pc = "done",
            !.out = [kind |-> "return", exc |-> "None", msg |-> NoMsg,
                     result |-> result, tlds |-> links]]
Raise(c, error, msg) ==
  [c EXCEPT !.pc = "done",
            !.out = [kind |-> "raise", exc |-> error, msg |-> msg,
                     result |-> NoResult, tlds |-> <<>>]]

\* time passing while the client waits: a token older than 50 minutes is stale
Elapse(c, aged) == IF aged /\ c.token = "fresh" THEN [c EXCEPT !.token = "stale"] ELSE c

\* _refresh_token_if_needed: authenticate when there is no token or it is too old
RefreshNeeded(c) == c.token \in {"none", "stale"}

\* entry of authenticate(), called from ctx
EnterAuth(c, ctx) ==
  [c EXCEPT !.pc = "auth_post", !.auth_attempt = 0, !.auth_error = "None",
            !.auth_ctx = ctx, !.posts = 0, !.au = NoWait]

\* download_zone_file: the exhausted loop returns a failed DownloadResult
DlExhausted(c) ==
  Return(c, DownloadResult(c.tld, "", 0, "failed",
                           Msg("Download failed after attempts", 0, c.last_error)), <<>>)

\* download_zone_file: head of `for attempt in range(max_retries)` up to the GET
DlLoopHead(c) ==
  IF c.attempt >= MaxRetries THEN DlExhausted(c)
  ELSE IF RefreshNeeded(c) THEN EnterAuth(c, "headers")
  ELSE [c EXCEPT !.pc = "dl_get"]

\* get_approved_tlds: _get_auth_headers() and the GET of the links
ListHeaders(c) ==
  IF RefreshNeeded(c) THEN EnterAuth(c, "headers") ELSE [c EXCEPT !.pc = "list_get"]

\* authenticate() returned a token: back to the caller
AuthSucceeded(c) ==
  CASE c.auth_ctx = "top" -> Return(c, NoResult, <<>>)
    [] c.auth_ctx = "refresh0" ->
         IF c.op = "download_zone_file" THEN DlLoopHead(c) ELSE ListHeaders(c)
    [] c.auth_ctx = "headers" ->
         [c EXCEPT !.pc = IF c.op = "download_zone_file" THEN "dl_get" ELSE "list_get"]
    [] OTHER -> DlLoopHead([c EXCEPT !.attempt = @ + 1])

\* authenticate() returning where it raises
AuthFailedReturning(c, msg) == Return(c, NoResult, <<>>)

\* authenticate() raised: no caller of it in the client catches AuthenticationError
AuthFailed(c, msg) == Raise(c, "AuthenticationError", msg)

\* the loop of authenticate with one attempt more than max_retries
AuthLoopHeadOneMore(c) ==
  IF c.auth_attempt > MaxRetries
  THEN AuthFailed(c, Msg("Authentication failed after attempts", 0, c.auth_error))
  ELSE [c EXCEPT !.pc = "auth_post"]

\* authenticate: head of `for attempt in range(max_retries)`, and the raise after it
AuthLoopHead(c) ==
  IF c.auth_attempt >= MaxRetries
  THEN AuthFailed(c, Msg("Authentication failed after attempts", 0, c.auth_error))
  ELSE [c EXCEPT !.pc = "auth_post"]

\* authenticate: one POST and what the loop does with the answer r
AuthOnResponse(c0, r) ==
  LET c == [c0 EXCEPT !.posts = @ + 1,
                      !.after_notfound = IF c0.notfound THEN @ + 1 ELSE @] IN
  CASE r = "200" -> AuthSucceeded([c EXCEPT !.token = "fresh"])
    [] r = "401" -> AuthFailed(c, Msg("Invalid ICANN credentials", 0, "None"))
    [] r = "429" -> AuthLoopHead([c EXCEPT !.auth_attempt = @ + 1])
    [] OTHER -> AuthLoopHead([c EXCEPT !.auth_error = ErrText(r), !.auth_attempt = @ + 1])

\* download_zone_file taking a 404 for one more failed attempt
DlOnResponseRetrying(c0, r, size) ==
  LET c == [c0 EXCEPT !.gets = @ + 1,
                      !.after_notfound = IF c0.notfound THEN @ + 1 ELSE @,
                      !.notfound = @ \/ r = "404"] IN
  CASE r = "200" ->
         Return(c, DownloadResult(c.tld, "file", size, "success", NoMsg), <<>>)
    [] r = "200_mismatch" ->
         Raise(c, "DownloadError", Msg("File size mismatch", 0, "None"))
    [] r = "401" -> EnterAuth(c, "reauth")
    [] r = "429" -> DlLoopHead([c EXCEPT !.attempt = @ + 1])
    [] OTHER -> DlLoopHead([c EXCEPT !.last_error = ErrText(r), !.attempt = @ + 1])

\* download_zone_file: one GET of the zone file and what the loop does with r
DlOnResponse(c0, r, size) ==
  LET c == [c0 EXCEPT !.gets = @ + 1,
                      !.after_notfound = IF c0.notfound THEN @ + 1 ELSE @,
                      !.notfound = @ \/ r = "404"] IN
  CASE r = "200" ->
         Return(c, DownloadResult(c.tld, "file", size, "success", NoMsg), <<>>)
    [] r = "200_mismatch" ->
         Raise(c, "DownloadError", Msg("File size mismatch", 0, "None"))
    [] r = "404" ->
         Raise(c, "DownloadError", Msg("Zone file not found for TLD", c.tld, "None"))
    [] r = "401" -> EnterAuth(c, "reauth")
    [] r = "429" -> DlLoopHead([c EXCEPT !.attempt = @ + 1])
    [] OTHER -> DlLoopHead([c EXCEPT !.last_error = ErrText(r), !.attempt = @ + 1])

\* get_approved_tlds: the GET of the links; the server's list is `links`
ListOnResponse(c0, r, links) ==
  LET c == [c0 EXCEPT !.gets = @ + 1] IN
  CASE r = "200" -> Return(c, NoResult, links)
    [] r = "401" -> Raise(c, "AuthenticationError", Msg("Token expired or invalid", 0, "None"))
    [] r = "timeout" -> Raise(c, "Timeout", Msg("Request timeout", 0, "None"))
    [] r = "neterr" -> Raise(c, "RequestException", Msg("network error", 0, "None"))
    [] OTHER -> Raise(c, "DownloadError", Msg("Failed to get TLD list", 0, "HTTP 500"))

\* the Retry-After header of a 429: a number of seconds, or absent
NoRetryAfter == 0 - 1
RetryAfterHeaders == NoRetryAfter..MaxRetryAfter

\* _calculate_backoff_delay without the cap
UncappedBackoffDelay(attempt) == BaseDelay * Pow2(attempt)

\* _calculate_backoff_delay
CalculateBackoffDelay(attempt) ==
  LET delay == BaseDelay * Pow2(attempt) IN IF delay < MaxDelay THEN delay ELSE MaxDelay

\* a loop that backs off after a 401 as after any other failure
RetrySleepAfterReauth(k, r, hdr) ==
  IF r \in {"200", "200_mismatch", "404"} THEN Wait(r, k, NoRetryAfter, "none", 0)
  ELSE IF r = "429"
  THEN Wait(r, k, hdr, "retry_after", IF hdr = NoRetryAfter THEN DefaultRetryAfter ELSE hdr)
  ELSE IF k < MaxRetries - 1 THEN Wait(r, k, NoRetryAfter, "backoff", CalculateBackoffDelay(k))
  ELSE Wait(r, k, NoRetryAfter, "none", 0)

\* a loop that backs off after a 429 as after any other failure
RetrySleepBackingOff(k, r, hdr) ==
  IF r \in {"200", "200_mismatch", "401", "404"} THEN Wait(r, k, NoRetryAfter, "none", 0)
  ELSE IF k < MaxRetries - 1
  THEN Wait(r, k, IF r = "429" THEN hdr ELSE NoRetryAfter, "backoff", CalculateBackoffDelay(k))
  ELSE Wait(r, k, IF r = "429" THEN hdr ELSE NoRetryAfter, "none", 0)

\* the time.sleep of one iteration of a retry loop, answered r at attempt k:
\* Retry-After for a 429, the backoff after a failure that is not the last
\* attempt, none when the iteration returns, raises or reauthenticates
RetrySleep(k, r, hdr) ==
  IF r \in {"200", "200_mismatch", "401", "404"} THEN Wait(r, k, NoRetryAfter, "none", 0)
  ELSE IF r = "429"
  THEN Wait(r, k, hdr, "retry_after", IF hdr = NoRetryAfter THEN DefaultRetryAfter ELSE hdr)
  ELSE IF k < MaxRetries - 1 THEN Wait(r, k, NoRetryAfter, "backoff", CalculateBackoffDelay(k))
  ELSE Wait(r, k, NoRetryAfter, "none", 0)

\* authenticate: one POST answered, with the sleep of the iteration
AuthAnswered(c0, r, hdr) ==
  [AuthOnResponse(c0, r) EXCEPT !.au = RetrySleep(c0.auth_attempt, r, hdr)]

\* download_zone_file: one GET answered, with the sleep of the iteration
DlAnswered(c0, r, size, hdr) ==
  [DlOnResponse(c0, r, size) EXCEPT !.dl = RetrySleep(c0.attempt, r, hdr)]

\* a download that takes the file whatever its size
SizeUnverified(r, actual_size, expected_size) ==
  IF r \in {"200", "200_mismatch"} THEN "200" ELSE r

\* download_zone_file, lines 214-230: a 200 answer whose body of actual_size bytes
\* is written is a mismatch when Content-Length is there and differs
SizeVerified(r, actual_size, expected_size) ==
  IF r \in {"200", "200_mismatch"}
  THEN IF expected_size > 0 /\ actual_size # expected_size THEN "200_mismatch" ELSE "200"
  ELSE r

\* download_zone_file: one GET answered, the body of a 200 written and verified
ZoneAnswered(c0, r, actual_size, expected_size, hdr) ==
  LET v == SizeVerified(r, actual_size, expected_size) IN
  [DlAnswered(c0, v, actual_size, hdr) EXCEPT
     !.body = IF v \in {"200", "200_mismatch"}
              THEN [expected_size |-> expected_size, actual_size |-> actual_size,
                    on_disk |-> v = "200"]
              ELSE @]

\* a new call on the client: the token is what the last call left
NewCall(c, op, tld) ==
  [ClientInit EXCEPT !.token = c.token, !.op = op, !.tld = tld]

StartAuthenticate(c) == EnterAuth(NewCall(c, "authenticate", 0), "top")
StartDownload(c, tld) ==
  LET c0 == NewCall(c, "download_zone_file", tld) IN
  IF RefreshNeeded(c0) THEN EnterAuth(c0, "refresh0") ELSE DlLoopHead(c0)
StartList(c) ==
  LET c0 == NewCall(c, "get_approved_tlds", 0) IN
  IF RefreshNeeded(c0) THEN EnterAuth(c0, "refresh0") ELSE ListHeaders(c0)

\* the server's possible lists of approved TLDs: 1..n, in either order
RECURSIVE Ascending(_)
Ascending(n) == IF n = 0 THEN <<>> ELSE Append(Ascending(n - 1), n)
Reversed(s) == [i \in 1..Len(s) |-> s[Len(s) + 1 - i]]
ApprovedLists == {Ascending(n) : n \in 0..MaxTlds} \cup {Reversed(Ascending(n)) : n \in 0..MaxTlds}

\* one request of the call in progress answered, in every way the API can answer
\* (the sleeps between the requests change nothing of how a call ends)
ClientSucc(c) ==
  CASE c.pc = "auth_post" ->
         {AuthOnResponse(Elapse(c, aged), r) : r \in AuthStatuses, aged \in BOOLEAN}
    [] c.pc = "dl_get" ->
         {DlOnResponse(Elapse(c, aged), r, size) :
            r \in ZoneStatuses, aged \in BOOLEAN, size \in FileSizes}
    [] c.pc = "list_get" ->
         {ListOnResponse(Elapse(c, aged), r, <<>>) : r \in ListStatuses, aged \in BOOLEAN}
    [] OTHER -> {}

RECURSIVE Reach(_, _)
Reach(frontier, seen) ==
  IF frontier = {} THEN seen
  ELSE LET nxt == (UNION {ClientSucc(c) : c \in frontier}) \ seen
       IN Reach(nxt, seen \cup nxt)

\* what a whole call started in state c can end as: outcome, token left, GETs issued
CallEnds(c) ==
  {[out |-> d.out, token |-> d.token, gets |-> d.gets,
    notfound |-> d.notfound, after_notfound |-> d.after_notfound] :
     d \in {e \in Reach({c}, {c}) : e.pc = "done"}}

TokenStates == {"none", "fresh", "stale"}
\* download_zone_file uses its tld in the URL, the file name and the messages only:
\* its ends are computed once, for a TLD standing for any, and named afterwards
ThisTld == 0 - 1
Named(x, tld) == IF x = ThisTld THEN tld ELSE x
ForTld(out, tld) ==
  [out EXCEPT !.msg.tld = Named(@, tld), !.result.tld = Named(@, tld),
              !.result.error_message.tld = Named(@, tld)]
Holding(tok) == [ClientInit EXCEPT !.token = tok]

AuthenticateEnds == [tok \in TokenStates |-> CallEnds(StartAuthenticate(Holding(tok)))]
ListEnds == [tok \in TokenStates |-> CallEnds(StartList(Holding(tok)))]
DownloadEnds ==
  [tok \in TokenStates |-> CallEnds(StartDownload(Holding(tok), ThisTld))]

----------------------------------------------------------------------------
\* models/job_status.py

JobInit ==
  [state |-> "idle", current_tld |-> 0, progress_percent |-> 0, total_tlds |-> 0,
   completed_tlds |-> 0, started_at |-> "None"]

\* binary long division: the remainder left after n more quotient bits
RECURSIVE DivRem(_, _, _)
DivRem(r, d, n) == IF n = 0 THEN r ELSE DivRem((2 * r) % d, d, n - 1)
\* ... and the last of these bits
RECURSIVE DivBit(_, _, _)
DivBit(r, d, n) ==
  IF n = 1 THEN (IF 2 * r >= d THEN 1 ELSE 0) ELSE DivBit((2 * r) % d, d, n - 1)

\* int((completed / total) * 100) in IEEE-754 binary64, for 0 <= completed <= total.
\* completed/total is rounded to 53 bits, the product with 100 is rounded again,
\* int() truncates.  The two roundings move the value by less than 2^-45, so the
\* result is floor(100*completed/total) unless 100*completed/total is a whole
\* number m and the rounded product falls below m: the quotient was rounded down
\* by rho = r / (total * 2^n) (r the remainder of the division after its n = 52+g
\* bits, g the leading zero bits of the quotient) and 100*rho exceeds half the
\* spacing 2^(j-52) of the doubles below m (2^(j-53) when m = 2^j).
FloatPercent(completed, total) ==
  LET m == (100 * completed) \div total
      g == CHOOSE x \in 0..20 : completed * Pow2(x) >= total
                                /\ \A y \in 0..(x - 1) : completed * Pow2(y) < total
      n == 52 + g
      r == DivRem(completed % total, total, n)
      down == 2 * r < total \/ (2 * r = total /\ DivBit(completed % total, total, n) = 0)
      j == CHOOSE x \in 0..20 : Pow2(x) <= m /\ m < Pow2(x + 1)
      e == IF m = Pow2(j) THEN g + j - 2 ELSE g + j - 1
  IN IF (100 * completed) % total # 0 \/ m = 0 THEN m
     ELSE IF r > 0 /\ down
               /\ (IF e >= 0 THEN 100 * r > total * Pow2(e) ELSE 100 * r * Pow2(0 - e) > total)
          THEN m - 1 ELSE m

\* JobStatus.update_progress
UpdateProgress(j, completed, total, tld) ==
  [j EXCEPT !.completed_tlds = completed, !.total_tlds = total, !.current_tld = tld,
            !.progress_percent = IF total > 0 THEN FloatPercent(completed, total) ELSE 0]

\* JobStatus.start
JobStart(j, total) ==
  [j EXCEPT !.state = "running", !.total_tlds = total, !.completed_tlds = 0,
            !.progress_percent = 0, !.started_at = "set"]

\* JobStatus.complete
JobComplete(j) ==
  [j EXCEPT !.state = "idle", !.current_tld = 0, !.progress_percent = 100]

----------------------------------------------------------------------------
\* services/download_service.py: DownloadService

\* the threads that call run_full_download: the /api/download handler's thread
\* (api/app.py) and the scheduler's job (main.py: download_callback)
Callers == {"api", "scheduler"}

NoSummary ==
  [kind |-> "None", total_tlds |-> 0, successful_tlds |-> 0, failed_tlds |-> 0,
   total_records |-> 0]
DownloadSummary(total, ok, ko, records) ==
  [kind |-> "summary", total_tlds |-> total, successful_tlds |-> ok, failed_tlds |-> ko,
   total_records |-> records]

\* old_deleted: delete_tld_records went through; downloaded: download_zone_file
\* left a zone file in temp_dir; file_left: it is still there at the return;
\* stored: the records of the new file that insert_zone_records calls stored;
\* logs: the DownloadLog entries handed to repository.log_download for the TLD;
\* log_downloads, logged_ok, logged_records: over the run so far, how many
\* entries were handed over, how many with status success, and their records
NoTrace ==
  [tld |-> 0, caught |-> "None", notfound |-> FALSE, after_notfound |-> 0,
   parsed |-> FALSE, inserts |-> 0, result |-> NoResult,
   old_deleted |-> FALSE, downloaded |-> FALSE, file_left |-> FALSE, stored |-> 0,
   logs |-> <<>>, log_downloads |-> 0, logged_ok |-> 0, logged_records |-> 0]

\* models/download_log.py: the DownloadLog that _log_to_db makes of a result
DownloadLog(tld, res) ==
  [tld |-> tld, file_size |-> res.file_size, records_count |-> res.records_count,
   status |-> res.status, error_message |-> res.error_message]

\* _process_zone_file (size = batch_size) and _process_large_zone_file (size =
\* chunk_size): the parser yields n records and then ends, by raising ParseError
\* when perr; every `size` records, and for the rest at the end, one
\* insert_zone_records call is made, of which the failAt-th raises (0: none does)
ProcessFile(tld, n, perr, failAt, size) ==
  LET full == n \div size
      planned == IF perr THEN full ELSE full + (IF n % size > 0 THEN 1 ELSE 0)
  IN IF failAt \in 1..planned
     THEN [kind |-> "raise", exc |-> "StorageError", msg |-> Msg("insert failed", 0, "None"),
           inserts |-> failAt, records |-> (failAt - 1) * size]
     ELSE IF perr
     THEN [kind |-> "raise", exc |-> "ParseError", msg |-> Msg("Invalid gzip file", tld, "None"),
           inserts |-> planned, records |-> full * size]
     ELSE [kind |-> "ok", exc |-> "None", msg |-> NoMsg, inserts |-> planned, records |-> n]

\* the handler of download_single_tld: a failed result made of str(e)
ErrorResult(tld, msg) == DownloadResult(tld, "", 0, "failed", msg)

\* download_single_tld whose handler does not log the failed result
DownloadSingleTldSilentOnError(tld, end, n, perr, failAt, delete_ok) ==
  LET dl == ForTld(end.out, tld)
      size == IF dl.result.file_size >= LargeFileThreshold THEN ChunkSize ELSE BatchSize
      p == ProcessFile(tld, n, perr, failAt, size)
      seen == [NoTrace EXCEPT !.tld = tld, !.notfound = end.notfound,
                              !.after_notfound = end.after_notfound,
                              !.old_deleted = delete_ok]
      Done(t, res) == [t EXCEPT !.result = res, !.logs = Append(@, DownloadLog(tld, res))]
  IN IF dl.kind = "raise"
     THEN [seen EXCEPT !.caught = dl.exc, !.result = ErrorResult(tld, dl.msg)]
     ELSE IF dl.result.status # "success"
     THEN Done(seen, dl.result)
     ELSE IF p.kind = "raise"
     THEN [seen EXCEPT !.caught = p.exc, !.parsed = TRUE, !.inserts = p.inserts,
                       !.downloaded = TRUE, !.file_left = TRUE, !.stored = p.records,
                       !.result = ErrorResult(tld, p.msg)]
     ELSE Done([seen EXCEPT !.parsed = TRUE, !.inserts = p.inserts,
                            !.downloaded = TRUE, !.stored = p.records],
               [dl.result EXCEPT !.records_count = p.records])

\* download_single_tld(tld): `end` is how the download_zone_file call ended,
\* (n, perr, failAt) what parsing and storing the file met and delete_ok whether
\* delete_tld_records went through (lines 207-222: it is called first, and its
\* failure only logged).  The file is removed on the way that stores all its
\* records (249-253), and by no statement of the handler (258-279)
DownloadSingleTld(tld, end, n, perr, failAt, delete_ok) ==
  LET dl == ForTld(end.out, tld)
      size == IF dl.result.file_size >= LargeFileThreshold THEN ChunkSize ELSE BatchSize
      p == ProcessFile(tld, n, perr, failAt, size)
      seen == [NoTrace EXCEPT !.tld = tld, !.notfound = end.notfound,
                              !.after_notfound = end.after_notfound,
                              !.old_deleted = delete_ok]
      Done(t, res) == [t EXCEPT !.result = res, !.logs = Append(@, DownloadLog(tld, res))]
  IN IF dl.kind = "raise"
     THEN Done([seen EXCEPT !.caught = dl.exc], ErrorResult(tld, dl.msg))
     ELSE IF dl.result.status # "success"
     THEN Done(seen, dl.result)
     ELSE IF p.kind = "raise"
     THEN Done([seen EXCEPT !.caught = p.exc, !.parsed = TRUE, !.inserts = p.inserts,
                            !.downloaded = TRUE, !.file_left = TRUE, !.stored = p.records],
               ErrorResult(tld, p.msg))
     ELSE Done([seen EXCEPT !.parsed = TRUE, !.inserts = p.inserts,
                            !.downloaded = TRUE, !.stored = p.records],
               [dl.result EXCEPT !.records_count = p.records])

\* the collaborators' methods download_single_tld has invoked
TldCalls(tr) ==
  {"delete_tld_records", "download_zone_file", "log_download"}
    \cup (IF tr.parsed THEN {"parse_zone_file"} ELSE {})
    \cup (IF tr.inserts > 0 THEN {"insert_zone_records"} ELSE {})

\* download_single_tld for a TLD standing for any, from every way it can go: the
\* token it leaves, what it adds to the counters and to the methods invoked
TldOutcome(end, n, perr, failAt, delete_ok) ==
  LET tr == DownloadSingleTld(ThisTld, end, n, perr, failAt, delete_ok) IN
  [token |-> end.token, ok |-> tr.result.status = "success",
   records |-> tr.result.records_count, calls |-> TldCalls(tr), trace |-> tr]
TldOutcomes ==
  [tok \in TokenStates |->
     {TldOutcome(end, n, perr, failAt, delete_ok) :
        end \in UNION {DownloadEnds[Elapse(Holding(tok), aged).token] : aged \in BOOLEAN},
        n \in 0..MaxRecords, perr \in BOOLEAN, failAt \in 0..MaxRecords,
        delete_ok \in BOOLEAN}]
Unobserved == [tok \in TokenStates |-> {[o EXCEPT !.trace = NoTrace] : o \in TldOutcomes[tok]}]
TraceFor(tr, tld) ==
  [tr EXCEPT !.tld = Named(@, tld), !.result.tld = Named(@, tld),
             !.result.error_message.tld = Named(@, tld),
             !.logs = [i \in DOMAIN @ |->
                         [@[i] EXCEPT !.tld = Named(@, tld),
                                      !.error_message.tld = Named(@, tld)]]]

\* the record of the run so far, with what download_single_tld did for tld
Observed(before, tr, tld) ==
  LET Ok(i) == tr.logs[i].status = "success"
      RECURSIVE Sum(_)
      Sum(i) == IF i = 0 THEN 0 ELSE Sum(i - 1) + (IF Ok(i) THEN tr.logs[i].records_count ELSE 0)
  IN [TraceFor(tr, tld) EXCEPT
        !.log_downloads = before.log_downloads + Len(tr.logs),
        !.logged_ok = before.logged_ok + Cardinality({i \in DOMAIN tr.logs : Ok(i)}),
        !.logged_records = before.logged_records + Sum(Len(tr.logs))]
\* authenticate() and get_approved_tlds() likewise, the token aged or not
AuthenticateOutcomes ==
  [tok \in TokenStates |->
     {[token |-> end.token, out |-> end.out] :
        end \in UNION {AuthenticateEnds[Elapse(Holding(tok), aged).token] : aged \in BOOLEAN}}]
ListOutcomes ==
  [tok \in TokenStates |->
     {[token |-> end.token, out |-> end.out] :
        end \in UNION {ListEnds[Elapse(Holding(tok), aged).token] : aged \in BOOLEAN}}]

Idle(t) == pc[t] \in {"idle", "returned", "raised"}

\* the client as a finished call leaves it
Left(end) == Holding(end.token)

\* run_full_download without the early return
CheckRunningUnguarded(t) ==
  /\ Idle(t)
  /\ was_running' = [was_running EXCEPT ![t] = (job.state = "running")]
  /\ pc' = [pc EXCEPT ![t] = "auth"]
  /\ tlds' = [tlds EXCEPT ![t] = <<>>]
  /\ idx' = [idx EXCEPT ![t] = 0]
  /\ successful' = [successful EXCEPT ![t] = 0]
  /\ failed' = [failed EXCEPT ![t] = 0]
  /\ total_records' = [total_records EXCEPT ![t] = 0]
  /\ ret' = [ret EXCEPT ![t] = NoSummary]
  /\ exc' = [exc EXCEPT ![t] = "None"]
  /\ calls' = [calls EXCEPT ![t] = {}]
  /\ processed' = [processed EXCEPT ![t] = <<>>]
  /\ trace' = [trace EXCEPT ![t] = NoTrace]
  /\ UNCHANGED <<client, approved, job, observe, par, cp, fn, lk>>

\* run_full_download, lines 95-103: the check under the lock
CheckRunning(t) ==
  /\ Idle(t)
  /\ was_running' = [was_running EXCEPT ![t] = (job.state = "running")]
  /\ pc' = [pc EXCEPT ![t] = IF job.state = "running" THEN "returned" ELSE "auth"]
  /\ tlds' = [tlds EXCEPT ![t] = <<>>]
  /\ idx' = [idx EXCEPT ![t] = 0]
  /\ successful' = [successful EXCEPT ![t] = 0]
  /\ failed' = [failed EXCEPT ![t] = 0]
  /\ total_records' = [total_records EXCEPT ![t] = 0]
  /\ ret' = [ret EXCEPT ![t] = NoSummary]
  /\ exc' = [exc EXCEPT ![t] = "None"]
  /\ calls' = [calls EXCEPT ![t] = {}]
  /\ processed' = [processed EXCEPT ![t] = <<>>]
  /\ trace' = [trace EXCEPT ![t] = NoTrace]
  /\ UNCHANGED <<client, approved, job, observe, par, cp, fn, lk>>

\* line 110: czds_client.authenticate()
Authenticate(t) ==
  /\ pc[t] = "auth"
  /\ \E end \in AuthenticateOutcomes[client.token] :
       /\ client' = Left(end)
       /\ pc' = [pc EXCEPT ![t] = IF end.out.kind = "raise" THEN "except" ELSE "list"]
       /\ exc' = [exc EXCEPT ![t] = end.out.exc]
  /\ calls' = [calls EXCEPT ![t] = @ \cup {"authenticate"}]
  /\ UNCHANGED <<approved, job, was_running, tlds, idx, successful, failed, total_records,
                 ret, processed, trace, observe, par, cp, fn, lk>>

\* lines 114-126: czds_client.get_approved_tlds() and the return for an empty list
GetApprovedTlds(t) ==
  /\ pc[t] = "list"
  /\ \E end \in ListOutcomes[client.token] :
       LET got == IF end.out.kind = "return" THEN approved ELSE <<>> IN
       /\ client' = Left(end)
       /\ tlds' = [tlds EXCEPT ![t] = got]
       /\ exc' = [exc EXCEPT ![t] = end.out.exc]
       /\ pc' = [pc EXCEPT ![t] = IF end.out.kind = "raise" THEN "except"
                                  ELSE IF got = <<>> THEN "returned" ELSE "start"]
       /\ ret' = [ret EXCEPT ![t] = IF end.out.kind = "return" /\ got = <<>>
                                    THEN DownloadSummary(0, 0, 0, 0) ELSE @]
  /\ calls' = [calls EXCEPT ![t] = @ \cup {"get_approved_tlds"}]
  /\ UNCHANGED <<approved, job, was_running, idx, successful, failed, total_records,
                 processed, trace, observe, par, cp, fn, lk>>

\* lines 129-130: start the job, under the lock
StartJob(t) ==
  /\ pc[t] = "start"
  /\ job' = JobStart(job, Len(tlds[t]))
  /\ pc' = [pc EXCEPT ![t] = "tld"]
  /\ UNCHANGED <<client, approved, was_running, tlds, idx, successful, failed,
                 total_records, ret, exc, calls, processed, trace, observe, par, cp, fn, lk>>

\* the loop leaving through the handler when a TLD fails
DownloadTldAborting(t) ==
  /\ pc[t] = "tld"
  /\ LET tld == tlds[t][idx[t] + 1] IN
     \E o \in (IF observe THEN TldOutcomes ELSE Unobserved)[client.token] :
       /\ client' = Left(o)
       /\ successful' = [successful EXCEPT ![t] = IF o.ok THEN @ + 1 ELSE @]
       /\ total_records' = [total_records EXCEPT ![t] = IF o.ok THEN @ + o.records ELSE @]
       /\ failed' = [failed EXCEPT ![t] = IF o.ok THEN @ ELSE @ + 1]
       /\ calls' = [calls EXCEPT ![t] = @ \cup o.calls]
       /\ processed' = [processed EXCEPT ![t] = Append(@, tld)]
       /\ trace' = [trace EXCEPT ![t] = Observed(@, o.trace, tld)]
       /\ pc' = [pc EXCEPT ![t] = IF o.ok THEN "progress" ELSE "except"]
  /\ UNCHANGED <<approved, job, was_running, tlds, idx, ret, exc, observe, par, cp, fn, lk>>

\* lines 143-150: download_single_tld(tld) for the next TLD and the counters
DownloadTld(t) ==
  /\ pc[t] = "tld"
  /\ LET tld == tlds[t][idx[t] + 1] IN
     \E o \in (IF observe THEN TldOutcomes ELSE Unobserved)[client.token] :
       /\ client' = Left(o)
       /\ successful' = [successful EXCEPT ![t] = IF o.ok THEN @ + 1 ELSE @]
       /\ total_records' = [total_records EXCEPT ![t] = IF o.ok THEN @ + o.records ELSE @]
       /\ failed' = [failed EXCEPT ![t] = IF o.ok THEN @ ELSE @ + 1]
       /\ calls' = [calls EXCEPT ![t] = @ \cup o.calls]
       /\ processed' = [processed EXCEPT ![t] = Append(@, tld)]
       /\ trace' = [trace EXCEPT ![t] = Observed(@, o.trace, tld)]
  /\ pc' = [pc EXCEPT ![t] = "progress"]
  /\ UNCHANGED <<approved, job, was_running, tlds, idx, ret, exc, observe, par, cp, fn, lk>>

\* an exception that download_single_tld does not turn into a failed result: one
\* raised by its first statement or inside its handler, which run outside its try
TldRaises(t) ==
  /\ pc[t] = "tld"
  /\ pc' = [pc EXCEPT ![t] = "except"]
  /\ exc' = [exc EXCEPT ![t] = "Unexpected"]
  /\ UNCHANGED <<client, approved, job, was_running, tlds, idx, successful, failed,
                 total_records, ret, calls, processed, trace, observe, par, cp, fn, lk>>

\* lines 153-154: update_progress(i + 1, len(tlds), tld), under the lock
ReportProgress(t) ==
  /\ pc[t] = "progress"
  /\ job' = UpdateProgress(job, idx[t] + 1, Len(tlds[t]), tlds[t][idx[t] + 1])
  /\ idx' = [idx EXCEPT ![t] = @ + 1]
  /\ pc' = [pc EXCEPT ![t] = IF idx[t] + 1 < Len(tlds[t]) THEN "tld" ELSE "complete"]
  /\ UNCHANGED <<client, approved, was_running, tlds, successful, failed, total_records,
                 ret, exc, calls, processed, trace, observe, par, cp, fn, lk>>

\* a summary that leaves the failed TLDs out
CompleteJobDroppingFailures(t) ==
  /\ pc[t] = "complete"
  /\ job' = JobComplete(job)
  /\ ret' = [ret EXCEPT ![t] = DownloadSummary(successful[t], successful[t], 0,
                                               total_records[t])]
  /\ pc' = [pc EXCEPT ![t] = "returned"]
  /\ UNCHANGED <<client, approved, was_running, tlds, idx, successful, failed,
                 total_records, exc, calls, processed, trace, observe, par, cp, fn, lk>>

\* lines 157-181: complete the job, under the lock, and return the summary
CompleteJob(t) ==
  /\ pc[t] = "complete"
  /\ job' = JobComplete(job)
  /\ ret' = [ret EXCEPT ![t] = DownloadSummary(Len(tlds[t]), successful[t], failed[t],
                                               total_records[t])]
  /\ pc' = [pc EXCEPT ![t] = "returned"]
  /\ UNCHANGED <<client, approved, was_running, tlds, idx, successful, failed,
                 total_records, exc, calls, processed, trace, observe, par, cp, fn, lk>>

\* the handler raising again without completing the job
HandleExceptionNoReset(t) ==
  /\ pc[t] = "except"
  /\ pc' = [pc EXCEPT ![t] = "raised"]
  /\ UNCHANGED <<client, approved, job, was_running, tlds, idx, successful, failed,
                 total_records, ret, exc, calls, processed, trace, observe, par, cp, fn, lk>>

\* lines 183-192: the handler: complete the job, under the lock, and raise again
HandleException(t) ==
  /\ pc[t] = "except"
  /\ job' = JobComplete(job)
  /\ pc' = [pc EXCEPT ![t] = "raised"]
  /\ UNCHANGED <<client, approved, was_running, tlds, idx, successful, failed,
                 total_records, ret, exc, calls, processed, trace, observe, par, cp, fn, lk>>

----------------------------------------------------------------------------
\* services/parallel_processor.py: ParallelDownloadService

\* the result dict of _download_single_tld; of the error message its text is kept
ParTldResult(success, records, error) ==
  [success |-> success, records |-> records, error |-> error.text]
NoParTldResult == ParTldResult(FALSE, 0, NoMsg)

\* the results dict of download_tlds_parallel: its counters
ParResults(total, ok, ko, records) ==
  [total |-> total, successful |-> ok, failed |-> ko, total_records |-> records]

\* __init__; per download_tlds_parallel call: where it is, its tlds, its futures
\* ("none", "pending", "done", or "taken" once as_completed has yielded it), what
\* each finished future holds until it is taken, the results dict, and the
\* DownloadLogs handed to log_download for each TLD
ParInit ==
  [is_running |-> FALSE, stop_event |-> FALSE,
   pc |-> [t \in Callers |-> "idle"],
   tlds |-> [t \in Callers |-> <<>>],
   futures |-> [t \in Callers |-> [tld \in TldNames |-> "none"]],
   returned |-> [t \in Callers |-> [tld \in TldNames |-> NoParTldResult]],
   results |-> [t \in Callers |-> ParResults(0, 0, 0, 0)],
   logs |-> [t \in Callers |-> [tld \in TldNames |-> <<>>]]]

\* process_chunks_parallel: the parser yields n records, and raises when perr; a
\* chunk is counted whether or not its insert went through, an error of the
\* producer or of a consumer is collected and not raised; the closing log line
\* divides by the duration in whole seconds, zero when the file was quick
ProcessChunksParallel(n, perr, quick) ==
  IF quick
  THEN [kind |-> "raise", exc |-> "ZeroDivisionError",
        msg |-> Msg("division by zero", 0, "None"), records |-> 0]
  ELSE [kind |-> "ok", exc |-> "None", msg |-> NoMsg,
        records |-> IF perr THEN (n \div ChunkSize) * ChunkSize ELSE n]

\* _log_to_db of the parallel service (the sizes and durations are left out)
ParDownloadLog(tld, download_result, records) ==
  [tld |-> tld, records_count |-> records,
   status |-> IF records > 0 THEN "success" ELSE "failed",
   error_message |-> download_result.error_message]

\* _download_single_tld(tld): `out` is how the download_zone_file call ended
ParDownloadSingleTld(tld, out, n, perr, quick) ==
  LET dl == ForTld(out, tld)
      p == ProcessChunksParallel(n, perr, quick)
  IN IF dl.kind = "raise"
     THEN [result |-> ParTldResult(FALSE, 0, dl.msg), logs |-> <<>>]
     ELSE IF dl.result.status # "success"
     THEN [result |-> ParTldResult(FALSE, 0, dl.result.error_message), logs |-> <<>>]
     ELSE IF p.kind = "raise"
     THEN [result |-> ParTldResult(FALSE, 0, p.msg), logs |-> <<>>]
     ELSE [result |-> ParTldResult(TRUE, p.records, NoMsg),
           logs |-> <<ParDownloadLog(tld, dl.result, p.records)>>]

\* the worker threads share the client: a download finds the token as the other
\* threads left it
ParDownloadOuts ==
  {end.out : end \in UNION {DownloadEnds[tok] : tok \in TokenStates}}
ParTldOutcomes ==
  [tld \in TldNames |->
     {ParDownloadSingleTld(tld, out, n, perr, quick) :
        out \in ParDownloadOuts, n \in 0..MaxRecords, perr \in BOOLEAN, quick \in BOOLEAN}]

SeqVars == <<client, approved, job, pc, was_running, tlds, idx, successful, failed,
             total_records, ret, exc, calls, processed, trace, observe>>

\* lines 236-272: download_tlds_parallel(tlds) is entered and submits a future
\* for every TLD
ParStart(t) ==
  /\ par.pc[t] = "idle"
  /\ par' = [par EXCEPT
       !.pc[t] = "running", !.tlds[t] = approved,
       !.futures[t] = [tld \in TldNames |->
                         IF \E i \in DOMAIN approved : approved[i] = tld
                         THEN "pending" ELSE "none"],
       !.returned[t] = [tld \in TldNames |-> NoParTldResult],
       !.results[t] = ParResults(Len(approved), 0, 0, 0),
       !.logs[t] = [tld \in TldNames |-> <<>>]]
  /\ UNCHANGED <<SeqVars, cp, fn, lk>>

\* a pool thread runs _download_single_tld for one TLD
ParWorker(t, tld) ==
  /\ par.futures[t][tld] = "pending"
  /\ \E o \in ParTldOutcomes[tld] :
       par' = [par EXCEPT !.futures[t][tld] = "done", !.returned[t][tld] = o.result,
                          !.logs[t][tld] = @ \o o.logs]
  /\ UNCHANGED <<SeqVars, cp, fn, lk>>

\* lines 274-290: as_completed yields a finished future and its result is counted
ParCollect(t, tld) ==
  /\ par.pc[t] = "running" /\ ~par.stop_event
  /\ par.futures[t][tld] = "done"
  /\ LET r == par.returned[t][tld]
         was == par.results[t]
     IN par' = [par EXCEPT
          !.futures[t][tld] = "taken", !.returned[t][tld] = NoParTldResult,
          !.results[t] = IF r.success
                         THEN ParResults(was.total, was.successful + 1, was.failed,
                                         was.total_records + r.records)
                         ELSE ParResults(was.total, was.successful, was.failed + 1,
                                         was.total_records)]
  /\ UNCHANGED <<SeqVars, cp, fn, lk>>

\* lines 275-276: the stop event is found set and the loop is left
ParBreak(t) ==
  /\ par.pc[t] = "running" /\ par.stop_event
  /\ \E tld \in TldNames : par.futures[t][tld] = "done"
  /\ par' = [par EXCEPT !.pc[t] = "stopped"]
  /\ UNCHANGED <<SeqVars, cp, fn, lk>>

\* lines 299-310: the executor has joined its threads; the results are returned
ParReturn(t) ==
  /\ \/ par.pc[t] = "stopped"
     \/ par.pc[t] = "running" /\ \A tld \in TldNames : par.futures[t][tld] # "done"
  /\ \A tld \in TldNames : par.futures[t][tld] # "pending"
  /\ par' = [par EXCEPT !.pc[t] = "returned"]
  /\ UNCHANGED <<SeqVars, cp, fn, lk>>

\* stop()
ParStop ==
  /\ ~par.stop_event
  /\ par' = [par EXCEPT !.stop_event = TRUE]
  /\ UNCHANGED <<SeqVars, cp, fn, lk>>

----------------------------------------------------------------------------
\* Functions applied on their own: the last application is kept in fn

Applied(op, args, result) == [op |-> op, args |-> args, result |-> result]
FnInit == Applied("none", <<>>, <<>>)

\* verify_file_integrity that compares the sizes only (a missing file has size 0)
VerifyFileIntegritySizeOnly(exists, actual_size, expected_size) ==
  actual_size = expected_size

\* czds_client.py verify_file_integrity(file_path, expected_size): exists and
\* actual_size are what os.path.exists and os.path.getsize find at file_path
VerifyFileIntegrity(exists, actual_size, expected_size) ==
  IF ~exists THEN FALSE ELSE actual_size = expected_size

CallVerifyFileIntegrity ==
  /\ fn.op = "none"
  /\ \E exists \in BOOLEAN, actual_size \in FileSizes, expected_size \in FileSizes :
       /\ exists \/ actual_size = 0
       /\ fn' = Applied("verify_file_integrity",
                        [exists |-> exists, actual_size |-> actual_size,
                         expected_size |-> expected_size],
                        VerifyFileIntegrity(exists, actual_size, expected_size))
  /\ UNCHANGED <<SeqVars, par, cp, lk>>

\* services/zone_parser.py.  A line is a sequence of characters.
Whitespace == {" ", "\t", "\n", "\r"}
DigitChars == <<"0", "1", "2", "3", "4", "5", "6", "7", "8", "9">>
Lowercase == <<"a", "b", "c", "d", "e", "f", "g", "h", "i", "j", "k", "l", "m",
               "n", "o", "p", "q", "r", "s", "t", "u", "v", "w", "x", "y", "z">>
Uppercase == <<"A", "B", "C", "D", "E", "F", "G", "H", "I", "J", "K", "L", "M",
               "N", "O", "P", "Q", "R", "S", "T", "U", "V", "W", "X", "Y", "Z">>
IsDigit(c) == \E i \in DOMAIN DigitChars : DigitChars[i] = c
\* str.upper, a character at a time
UpperChar(c) ==
  IF \E i \in DOMAIN Lowercase : Lowercase[i] = c
  THEN Uppercase[CHOOSE i \in DOMAIN Lowercase : Lowercase[i] = c] ELSE c
Upper(str) == [i \in DOMAIN str |-> UpperChar(str[i])]

\* str.strip(), str.rstrip('.')
RECURSIVE LStrip(_)
LStrip(str) ==
  IF str # <<>> /\ Head(str) \in Whitespace THEN LStrip(Tail(str)) ELSE str
RECURSIVE RStrip(_, _)
RStrip(str, chars) ==
  IF str # <<>> /\ str[Len(str)] \in chars
  THEN RStrip(SubSeq(str, 1, Len(str) - 1), chars) ELSE str
Strip(str) == RStrip(LStrip(str), Whitespace)

\* int(ttl_str) for a string of decimal digits
RECURSIVE ToInt(_)
ToInt(str) ==
  IF str = <<>> THEN 0
  ELSE 10 * ToInt(SubSeq(str, 1, Len(str) - 1))
         + (CHOOSE d \in 0..9 : DigitChars[d + 1] = str[Len(str)])

\* the index after the longest run of characters that are (are not, when ~in)
\* whitespace starting at i; of decimal digits for DigitsEnd
RECURSIVE RunEnd(_, _, _)
RunEnd(str, i, in) ==
  IF i <= Len(str) /\ ((str[i] \in Whitespace) = in) THEN RunEnd(str, i + 1, in) ELSE i
RECURSIVE DigitsEnd(_, _)
DigitsEnd(str, i) ==
  IF i <= Len(str) /\ IsDigit(str[i]) THEN DigitsEnd(str, i + 1) ELSE i

SupportedRecordTypes ==
  {<<"N", "S">>, <<"A">>, <<"A", "A", "A", "A">>, <<"C", "N", "A", "M", "E">>,
   <<"M", "X">>, <<"T", "X", "T">>, <<"S", "O", "A">>}

\* ZONE_LINE_PATTERN.match(line), ^(\S+)\s+(\d+)\s+IN\s+(\S+)\s+(.+)$ ignoring
\* case: a run of non-blanks or of digits that is followed by \s+ is the longest
\* run, so the match is found left to right without backtracking; the line has
\* been stripped, so that what follows the last \s+ starts with a non-blank
ZoneLineMatch(line) ==
  LET b == RunEnd(line, 1, FALSE)
      c == RunEnd(line, b, TRUE)
      d == DigitsEnd(line, c)
      e == RunEnd(line, d, TRUE)
      f == e + 2
      g == RunEnd(line, f, TRUE)
      h == RunEnd(line, g, FALSE)
      k == RunEnd(line, h, TRUE)
  IN IF /\ b > 1 /\ c > b /\ d > c /\ e > d
        /\ f <= Len(line) /\ UpperChar(line[e]) = "I" /\ UpperChar(line[e + 1]) = "N"
        /\ g > f /\ h > g /\ k > h /\ k <= Len(line)
        /\ \A i \in k..Len(line) : line[i] # "\n"
     THEN [matched |-> TRUE, domain_name |-> SubSeq(line, 1, b - 1),
           ttl_str |-> SubSeq(line, c, d - 1), record_type |-> SubSeq(line, g, h - 1),
           record_data |-> SubSeq(line, k, Len(line))]
     ELSE [matched |-> FALSE, domain_name |-> <<>>, ttl_str |-> <<>>,
           record_type |-> <<>>, record_data |-> <<>>]

ZoneRecord(domain_name, record_type, record_data, ttl) ==
  [domain_name |-> domain_name, record_type |-> record_type,
   record_data |-> record_data, ttl |-> ttl]
\* None
NoRecord == ZoneRecord(<<>>, <<>>, <<>>, 0 - 1)

\* _parse_line that compares the record type as it is written
ParseLineCaseSensitive(raw) ==
  LET line == Strip(raw)
      m == ZoneLineMatch(line)
  IN IF line = <<>> \/ Head(line) = ";" \/ Head(line) = "$" THEN NoRecord
     ELSE IF ~m.matched THEN NoRecord
     ELSE IF m.record_type \notin SupportedRecordTypes THEN NoRecord
     ELSE ZoneRecord(RStrip(m.domain_name, {"."}), m.record_type,
                     RStrip(Strip(m.record_data), {"."}), ToInt(m.ttl_str))

\* _parse_line(line, line_number)
ParseLine(raw) ==
  LET line == Strip(raw)
      m == ZoneLineMatch(line)
      record_type == Upper(m.record_type)
  IN IF line = <<>> \/ Head(line) = ";" \/ Head(line) = "$" THEN NoRecord
     ELSE IF ~m.matched THEN NoRecord
     ELSE IF record_type \notin SupportedRecordTypes THEN NoRecord
     ELSE ZoneRecord(RStrip(m.domain_name, {"."}), record_type,
                     RStrip(Strip(m.record_data), {"."}), ToInt(m.ttl_str))

\* the lines tried: an indent, a first field, blanks, a TTL, a class, a type,
\* record data and a line end
Indents == {<<>>, <<" ">>}
Blanks == {<<" ">>, <<"\t", " ">>, <<>>}
DomainFields ==
  {<<"e", "x", ".">>, <<"e", "x">>, <<"e", ".", "x", ".", ".">>, <<".">>,
   <<";", "e", "x", ".">>, <<"$", "e", "x", ".">>}
TtlFields == {<<"6", "0">>, <<"0", "0", "7">>, <<"6", "x">>, <<>>}
ClassFields == {<<"I", "N">>, <<"i", "n">>, <<"C", "H">>, <<"I", "N", "X">>}
TypeFields ==
  {<<"N", "S">>, <<"n", "s">>, <<"M", "x">>, <<"a">>, <<"D", "S">>,
   <<"N", "S", "E", "C">>}
DataFields ==
  {<<"n", "s", ".", "e", "x", ".">>, <<"n", "s">>, <<"a", " ", "b", ".">>, <<>>,
   <<".">>, <<"1", ".", "2", ".", ".">>}
LineEnds == {<<>>, <<"\n">>, <<" ", "\r", "\n">>}
LineFields(indent, domain, blank, ttl, class, type, data, eol) ==
  [indent |-> indent, domain |-> domain, blank |-> blank, ttl |-> ttl,
   class |-> class, type |-> type, data |-> data, eol |-> eol]
ZoneLine(a) ==
  a.indent \o a.domain \o a.blank \o a.ttl \o a.blank \o a.class \o a.blank
    \o a.type \o a.blank \o a.data \o a.eol
\* lines of blanks
BlankLines ==
  {LineFields(indent, <<>>, blank, <<>>, <<>>, <<>>, <<>>, eol) :
     indent \in Indents, blank \in Blanks, eol \in LineEnds}

CallParseLine ==
  /\ fn.op = "none"
  /\ \E indent \in Indents, domain \in DomainFields, blank \in Blanks, ttl \in TtlFields,
        class \in ClassFields, type \in TypeFields, data \in DataFields, eol \in LineEnds :
       LET a == LineFields(indent, domain, blank, ttl, class, type, data, eol)
       IN fn' = Applied("_parse_line", a, ParseLine(ZoneLine(a)))
  /\ UNCHANGED <<SeqVars, par, cp, lk>>
CallParseBlankLine ==
  /\ fn.op = "none"
  /\ \E a \in BlankLines : fn' = Applied("_parse_line", a, ParseLine(ZoneLine(a)))
  /\ UNCHANGED <<SeqVars, par, cp, lk>>

\* a gzipped zone file: its lines, and how reading it goes: to the end (NoReadError),
\* or bad_at lines are read and the next read raises what `error` names
NoReadError == 0 - 1
ZoneFile(lines, bad_at, error) == [lines |-> lines, bad_at |-> bad_at, error |-> error]
Readable(file) == IF file.bad_at = NoReadError THEN Len(file.lines) ELSE file.bad_at
\* lines 90-93 and 269-272: BadGzipFile and IOError become ParseError, anything
\* else gzip raises (EOFError for a truncated stream) goes through as it is
RaisedBy(file) ==
  IF file.bad_at = NoReadError THEN "None"
  ELSE IF file.error \in {"BadGzipFile", "IOError"} THEN "ParseError" ELSE file.error

\* parse_zone_file(file_path): the records yielded and the exception that ends it
RECURSIVE ParseLines(_, _, _)
ParseLines(lines, i, last) ==
  IF i > last THEN <<>>
  ELSE LET record == ParseLine(lines[i])
       IN (IF record # NoRecord THEN <<record>> ELSE <<>>) \o ParseLines(lines, i + 1, last)
ParseZoneFile(file) ==
  [records |-> ParseLines(file.lines, 1, Readable(file)), raised |-> RaisedBy(file)]

\* the loop of parse_zone_file_chunked from line i on, with the chunk being
\* filled and the number of the last chunk yielded
RECURSIVE ChunkLines(_, _, _, _, _, _)
ChunkLines(lines, i, last, chunk, chunk_number, chunk_size) ==
  IF i > last THEN [yielded |-> <<>>, chunk |-> chunk, chunk_number |-> chunk_number]
  ELSE LET record == ParseLine(lines[i])
           filled == IF record # NoRecord THEN Append(chunk, record) ELSE chunk
       IN IF record # NoRecord /\ Len(filled) >= chunk_size
          THEN LET rest == ChunkLines(lines, i + 1, last, <<>>, chunk_number + 1, chunk_size)
               IN [rest EXCEPT !.yielded = <<[chunk |-> filled, chunk_number |-> chunk_number + 1]>> \o @]
          ELSE ChunkLines(lines, i + 1, last, filled, chunk_number, chunk_size)

\* parse_zone_file_chunked that does not yield the records left at the end
ParseZoneFileChunkedFullOnly(file, chunk_size) ==
  [chunks |-> ChunkLines(file.lines, 1, Readable(file), <<>>, 0, chunk_size).yielded,
   raised |-> RaisedBy(file)]

\* parse_zone_file_chunked(file_path) with self.chunk_size = chunk_size
ParseZoneFileChunked(file, chunk_size) ==
  LET loop == ChunkLines(file.lines, 1, Readable(file), <<>>, 0, chunk_size)
  IN [chunks |-> IF file.bad_at = NoReadError /\ loop.chunk # <<>>
                 THEN Append(loop.yielded,
                             [chunk |-> loop.chunk, chunk_number |-> loop.chunk_number + 1])
                 ELSE loop.yielded,
      raised |-> RaisedBy(file)]

\* the files tried: up to MaxLines lines, each a record line, a comment or a
\* record line in another spelling
FileLines ==
  {<<"e", "x", ".", " ", "6", "0", " ", "I", "N", " ", "N", "S", " ", "n", "s", ".", "\n">>,
   <<";", " ", "e", "x", "\n">>,
   <<"e", "x", "\t", "0", "7", " ", "i", "n", " ", "a", " ", "1", ".", "2", "\n">>}
RECURSIVE LinesUpTo(_)
LinesUpTo(n) ==
  IF n = 0 THEN {<<>>}
  ELSE LinesUpTo(n - 1)
         \cup {Append(lines, l) : lines \in {x \in LinesUpTo(n - 1) : Len(x) = n - 1},
                                  l \in FileLines}
ReadErrors == {"BadGzipFile", "EOFError"}
ZoneFiles ==
  {ZoneFile(lines, NoReadError, "None") : lines \in LinesUpTo(MaxLines)}
    \cup UNION {{ZoneFile(lines, bad_at, error) : bad_at \in 0..Len(lines), error \in ReadErrors} :
                  lines \in LinesUpTo(MaxLines)}

CallParseZoneFile ==
  /\ fn.op = "none"
  /\ \E file \in ZoneFiles : fn' = Applied("parse_zone_file", [file |-> file], ParseZoneFile(file))
  /\ UNCHANGED <<SeqVars, par, cp, lk>>
CallParseZoneFileChunked ==
  /\ fn.op = "none"
  /\ \E file \in ZoneFiles, chunk_size \in 1..MaxRecords :
       fn' = Applied("parse_zone_file_chunked", [file |-> file, chunk_size |-> chunk_size],
                     ParseZoneFileChunked(file, chunk_size))
  /\ UNCHANGED <<SeqVars, par, cp, lk>>

\* db_repository.py insert_zone_records(records, batch_size), of whose execute
\* calls the first nfail fail: the data of the calls that went through, the
\* number of calls made, and the number returned (NoCount when it raises)
NoCount == 0 - 1
\* what a call has done so far: the data sent, the executes made, the calls of
\* _reconnect_insert, the seconds slept, and whether _insert_lock is held
Inserting(sent, executes, reconnects, sleeps, returned, locked) ==
  [sent |-> sent, executes |-> executes, reconnects |-> reconnects, sleeps |-> sleeps,
   returned |-> returned, locked |-> locked]

\* a retry loop that gives up after the last failure without a new connection
RECURSIVE InsertAttemptsKeepingLast(_, _, _, _)
InsertAttemptsKeepingLast(records, attempt, nfail, tried) ==
  IF attempt >= InsertRetries
  THEN Inserting(<<>>, tried.executes, tried.reconnects, tried.sleeps, 0, FALSE)
  ELSE IF attempt >= nfail
  THEN Inserting(<<records>>, tried.executes + 1, tried.reconnects, tried.sleeps,
                 Len(records), FALSE)
  ELSE IF attempt < InsertRetries - 1
  THEN InsertAttemptsKeepingLast(records, attempt + 1, nfail,
         Inserting(<<>>, tried.executes + 1, tried.reconnects + 1,
                   Append(tried.sleeps, 1 + attempt), NoCount, TRUE))
  ELSE Inserting(<<>>, tried.executes + 1, tried.reconnects, tried.sleeps, NoCount, FALSE)

\* lines 181-205: the attempts from number `attempt` on, made holding
\* _insert_lock; the `with` releases the lock on the return and on the raise
RECURSIVE InsertAttempts(_, _, _, _)
InsertAttempts(records, attempt, nfail, tried) ==
  IF attempt >= InsertRetries
  THEN Inserting(<<>>, tried.executes, tried.reconnects, tried.sleeps, 0, FALSE)
  ELSE IF attempt >= nfail
  THEN Inserting(<<records>>, tried.executes + 1, tried.reconnects, tried.sleeps,
                 Len(records), FALSE)
  ELSE IF attempt < InsertRetries - 1
  THEN InsertAttempts(records, attempt + 1, nfail,
         Inserting(<<>>, tried.executes + 1, tried.reconnects + 1,
                   Append(tried.sleeps, 1 + attempt), NoCount, TRUE))
  ELSE Inserting(<<>>, tried.executes + 1, tried.reconnects + 1, tried.sleeps, NoCount, FALSE)

InsertZoneRecords(records, batch_size, nfail) ==
  IF records = <<>> THEN Inserting(<<>>, 0, 0, <<>>, 0, FALSE)
  ELSE InsertAttempts(records, 0, nfail, Inserting(<<>>, 0, 0, <<>>, NoCount, TRUE))

\* the loop of _process_zone_file over the records parsed, from record i on: the
\* batches handed to insert_zone_records, of which call number failAt raises
RECURSIVE BatchRecords(_, _, _, _, _, _)
BatchRecords(records, i, records_batch, batches, failAt, batch_size) ==
  IF i > Len(records)
  THEN [batches |-> batches, records_batch |-> records_batch, failed |-> FALSE]
  ELSE LET filled == Append(records_batch, records[i])
       IN IF Len(filled) < batch_size
          THEN BatchRecords(records, i + 1, filled, batches, failAt, batch_size)
          ELSE IF Len(batches) + 1 = failAt
          THEN [batches |-> Append(batches, filled), records_batch |-> filled, failed |-> TRUE]
          ELSE BatchRecords(records, i + 1, <<>>, Append(batches, filled), failAt, batch_size)

ProcessedFile(batches, inserted, raised) ==
  [batches |-> batches, total_records |-> inserted, raised |-> raised]
RECURSIVE RecordsIn(_)
RecordsIn(batches) == IF batches = <<>> THEN 0 ELSE Len(Head(batches)) + RecordsIn(Tail(batches))

\* _process_zone_file without the insert of the remaining records
ProcessZoneFileFullOnly(file, batch_size, failAt) ==
  LET whole == ParseZoneFile(file)
      loop == BatchRecords(whole.records, 1, <<>>, <<>>, failAt, batch_size)
      before == SubSeq(loop.batches, 1, Len(loop.batches) - 1)
  IN IF loop.failed THEN ProcessedFile(loop.batches, RecordsIn(before), "Exception")
     ELSE ProcessedFile(loop.batches, RecordsIn(loop.batches), whole.raised)

\* download_service.py _process_zone_file(tld, result) with self.batch_size =
\* batch_size: the batches handed to insert_zone_records, the records counted,
\* and the exception that ends it
ProcessZoneFile(file, batch_size, failAt) ==
  LET whole == ParseZoneFile(file)
      loop == BatchRecords(whole.records, 1, <<>>, <<>>, failAt, batch_size)
      before == SubSeq(loop.batches, 1, Len(loop.batches) - 1)
      all == Append(loop.batches, loop.records_batch)
  IN IF loop.failed THEN ProcessedFile(loop.batches, RecordsIn(before), "Exception")
     ELSE IF whole.raised # "None"
     THEN ProcessedFile(loop.batches, RecordsIn(loop.batches), whole.raised)
     ELSE IF loop.records_batch = <<>>
     THEN ProcessedFile(loop.batches, RecordsIn(loop.batches), "None")
     ELSE IF Len(all) = failAt
     THEN ProcessedFile(all, RecordsIn(loop.batches), "Exception")
     ELSE ProcessedFile(all, RecordsIn(all), "None")

CallProcessZoneFile ==
  /\ fn.op = "none"
  /\ \E file \in ZoneFiles, batch_size \in 1..MaxRecords, failAt \in 0..MaxRecords :
       fn' = Applied("_process_zone_file",
                     [file |-> file, batch_size |-> batch_size, failAt |-> failAt],
                     ProcessZoneFile(file, batch_size, failAt))
  /\ UNCHANGED <<SeqVars, par, cp, lk>>
CallInsertZoneRecords ==
  /\ fn.op = "none"
  /\ \E lines \in LinesUpTo(MaxLines), batch_size \in 1..MaxRecords, nfail \in 0..InsertRetries :
       LET records == ParseLines(lines, 1, Len(lines))
       IN fn' = Applied("insert_zone_records",
                        [records |-> records, batch_size |-> batch_size, nfail |-> nfail],
                        InsertZoneRecords(records, batch_size, nfail))
  /\ UNCHANGED <<SeqVars, par, cp, lk>>

----------------------------------------------------------------------------
\* services/parallel_processor.py: ChunkProcessor.process_chunks_parallel

Workers == 1..NumWorkers
\* Queue(maxsize=self.num_workers * 2)
MaxSize == NumWorkers * 2
\* the item (None, -1); a chunk is queued as its chunk number
Marker == 0 - 1
\* Queue.put goes through at once however many items are queued
PutNeverBlocks(queue) == TRUE
\* Queue.put blocks while the queue holds maxsize items
PutGoesThrough(queue) == Len(queue) < MaxSize

\* the records of chunk n: chunk_size of them, but for the last chunk of a file
\* read to its end, which is the one record left over
ChunkLen(n) ==
  IF n = cp.nchunks /\ cp.perr_at = NoReadError THEN 1 ELSE ChunkSize

\* a retry loop that sleeps one second before every further attempt
RECURSIVE InsertChunkFlatBackoff(_, _, _, _)
InsertChunkFlatBackoff(attempt, nfail, sleeps, errs) ==
  IF attempt >= ChunkRetries
  THEN [attempts |-> attempt, sleeps |-> sleeps, inserted |-> FALSE, errors |-> errs]
  ELSE IF attempt >= nfail
  THEN [attempts |-> attempt + 1, sleeps |-> sleeps, inserted |-> TRUE, errors |-> errs]
  ELSE IF attempt < ChunkRetries - 1
  THEN InsertChunkFlatBackoff(attempt + 1, nfail, Append(sleeps, 1), errs)
  ELSE InsertChunkFlatBackoff(attempt + 1, nfail, sleeps, errs + 1)

\* lines 129-144: the consumer's insert of one chunk from attempt number
\* `attempt` on, when the first nfail calls of db.insert_zone_records raise: the
\* calls made, the seconds slept between them, whether a call went through and
\* the entries appended to errors
RECURSIVE InsertChunk(_, _, _, _)
InsertChunk(attempt, nfail, sleeps, errs) ==
  IF attempt >= ChunkRetries
  THEN [attempts |-> attempt, sleeps |-> sleeps, inserted |-> FALSE, errors |-> errs]
  ELSE IF attempt >= nfail
  THEN [attempts |-> attempt + 1, sleeps |-> sleeps, inserted |-> TRUE, errors |-> errs]
  ELSE IF attempt < ChunkRetries - 1
  THEN InsertChunk(attempt + 1, nfail, Append(sleeps, 1 + attempt), errs)
  ELSE InsertChunk(attempt + 1, nfail, sleeps, errs + 1)
\* no chunk insert made since the consumer last came to the top of its loop
NoInsert == [attempts |-> 0, sleeps |-> <<>>, inserted |-> FALSE, errors |-> 0]

\* the storage handle a call of db_factory returns: a new one every time
Handle(w) == [owner |-> w, users |-> {}, closed |-> FALSE]
\* lines 159-163: finally db.close()
CloseHandle(handles, db) == [handles EXCEPT ![db].closed = TRUE]

\* __init__ and the start of process_chunks_parallel: the file has nchunks
\* chunks and the parser raises after perr_at of them (NoReadError: never);
\* `handled` counts for every chunk the consumers that took it, `markers` for
\* every consumer the markers it took
CpInit ==
  [main |-> "idle", outcome |-> "None", nchunks |-> 0, perr_at |-> NoReadError,
   stop_event |-> FALSE, queue |-> <<>>, errors |-> 0, chunks_processed |-> 0,
   producer |-> [pc |-> "idle", yielded |-> 0, queued |-> 0, markers |-> 0,
                 raised |-> FALSE],
   consumer |-> [w \in Workers |-> [pc |-> "idle", chunk |-> 0, markers |-> 0,
                                    factory_calls |-> 0, db |-> 0, last |-> NoInsert]],
   handled |-> [n \in 1..MaxChunks |-> 0],
   total_records |-> 0, inserted_records |-> 0, result |-> NoCount, handles |-> <<>>]

\* lines 60-83 and 164-173: process_chunks_parallel is called and starts the
\* producer and the consumers
CpStart ==
  /\ cp.main = "idle"
  /\ \E nchunks \in 0..MaxChunks, perr_at \in {NoReadError} \cup (0..MaxChunks) :
       /\ perr_at <= nchunks
       /\ cp' = [cp EXCEPT !.main = "running", !.nchunks = nchunks, !.perr_at = perr_at,
                           !.producer.pc = "parse",
                           !.consumer = [w \in Workers |-> [@[w] EXCEPT !.pc = "init"]]]
  /\ UNCHANGED <<SeqVars, par, fn, lk>>

\* lines 99-102 and 109-114: the producer asks the parser for the next chunk; it
\* gets one, and leaves the loop if the stop event is set, or the parser has
\* ended, or it raises and the error is collected
ProducerParse ==
  /\ cp.producer.pc = "parse"
  /\ cp' =
       IF cp.perr_at = cp.producer.yielded
       THEN [cp EXCEPT !.producer.pc = "markers", !.producer.raised = TRUE,
                       !.errors = @ + 1]
       ELSE IF cp.producer.yielded = cp.nchunks
       THEN [cp EXCEPT !.producer.pc = "markers"]
       ELSE [cp EXCEPT !.producer.yielded = @ + 1,
                       !.producer.pc = IF cp.stop_event THEN "markers" ELSE "put"]
  /\ UNCHANGED <<SeqVars, par, fn, lk>>

\* line 103: chunk_queue.put((chunk, chunk_num))
ProducerPut ==
  /\ cp.producer.pc = "put"
  /\ PutGoesThrough(cp.queue)
  /\ cp' = [cp EXCEPT !.queue = Append(@, cp.producer.yielded), !.producer.queued = @ + 1,
                      !.producer.pc = "parse"]
  /\ UNCHANGED <<SeqVars, par, fn, lk>>

\* a producer that ends the stream with a single (None, -1)
ProducerPutOneMarker ==
  /\ cp.producer.pc = "markers"
  /\ PutGoesThrough(cp.queue)
  /\ cp' = [cp EXCEPT !.queue = Append(@, Marker), !.producer.markers = @ + 1,
                      !.producer.pc = "done"]
  /\ UNCHANGED <<SeqVars, par, fn, lk>>

\* lines 105-107 and 113-114: one (None, -1) for every worker
ProducerPutMarker ==
  /\ cp.producer.pc = "markers"
  /\ PutGoesThrough(cp.queue)
  /\ cp' = [cp EXCEPT !.queue = Append(@, Marker), !.producer.markers = @ + 1,
                      !.producer.pc = IF cp.producer.markers + 1 = NumWorkers
                                      THEN "done" ELSE "markers"]
  /\ UNCHANGED <<SeqVars, par, fn, lk>>

\* lines 116-119: db = self.db_factory(), outside the try: when it raises the
\* thread ends there
ConsumerInit(w) ==
  /\ cp.consumer[w].pc = "init"
  /\ \E ok \in BOOLEAN :
       cp' = IF ok
             THEN [cp EXCEPT !.consumer[w].pc = "loop", !.consumer[w].factory_calls = @ + 1,
                             !.consumer[w].db = Len(cp.handles) + 1,
                             !.handles = Append(@, Handle(w))]
             ELSE [cp EXCEPT !.consumer[w].pc = "dead", !.consumer[w].factory_calls = @ + 1]
  /\ UNCHANGED <<SeqVars, par, fn, lk>>

\* a consumer that leaves on the stop event without closing its handle
ConsumerLoopLeavingOpen(w) ==
  /\ cp.consumer[w].pc = "loop"
  /\ cp' = [cp EXCEPT !.consumer[w].pc = IF cp.stop_event THEN "done" ELSE "get",
                      !.consumer[w].last = NoInsert]
  /\ UNCHANGED <<SeqVars, par, fn, lk>>

\* line 121: while not self._stop_event.is_set(); when it is set the consumer
\* leaves through the finally, which closes its handle (159-163)
ConsumerLoop(w) ==
  /\ cp.consumer[w].pc = "loop"
  /\ cp' = IF cp.stop_event
           THEN [cp EXCEPT !.consumer[w].pc = "done", !.consumer[w].last = NoInsert,
                           !.handles = CloseHandle(@, cp.consumer[w].db)]
           ELSE [cp EXCEPT !.consumer[w].pc = "get", !.consumer[w].last = NoInsert]
  /\ UNCHANGED <<SeqVars, par, fn, lk>>

\* lines 122-126: chunk_queue.get(); a marker ends the consumer, through the
\* finally
ConsumerGet(w) ==
  /\ cp.consumer[w].pc = "get"
  /\ cp.queue # <<>>
  /\ cp' = IF Head(cp.queue) = Marker
           THEN [cp EXCEPT !.queue = Tail(@), !.consumer[w].pc = "done",
                           !.consumer[w].markers = @ + 1,
                           !.handles = CloseHandle(@, cp.consumer[w].db)]
           ELSE [cp EXCEPT !.queue = Tail(@), !.consumer[w].pc = "insert",
                           !.consumer[w].chunk = Head(cp.queue),
                           !.handled[Head(cp.queue)] = @ + 1]
  /\ UNCHANGED <<SeqVars, par, fn, lk>>

\* lines 128-157: the chunk is inserted, in up to three attempts; when none goes
\* through an error is collected; the chunk is counted either way
ConsumerInsert(w) ==
  /\ cp.consumer[w].pc = "insert"
  /\ \E nfail \in 0..ChunkRetries :
       LET done == InsertChunk(0, nfail, <<>>, 0)
           len == ChunkLen(cp.consumer[w].chunk)
       IN cp' = [cp EXCEPT !.consumer[w].pc = "loop", !.consumer[w].chunk = 0,
                           !.consumer[w].last = done,
                           !.handles[cp.consumer[w].db].users = @ \cup {w},
                           !.chunks_processed = @ + 1,
                           !.total_records = @ + len,
                           !.inserted_records = IF done.inserted THEN @ + len ELSE @,
                           !.errors = @ + done.errors]
  /\ UNCHANGED <<SeqVars, par, fn, lk>>

\* stop()
CpStop ==
  /\ cp.main = "running" /\ ~cp.stop_event
  /\ cp' = [cp EXCEPT !.stop_event = TRUE]
  /\ UNCHANGED <<SeqVars, par, fn, lk>>

\* lines 175-203: the threads are joined and the totals returned; the closing
\* log line divides by the whole seconds taken, zero when the file was quick
CpReturn ==
  /\ cp.main = "running"
  /\ cp.producer.pc = "done"
  /\ \A w \in Workers : cp.consumer[w].pc \in {"done", "dead"}
  /\ \E quick \in BOOLEAN :
       LET p == ProcessChunksParallel(cp.total_records, FALSE, quick)
       IN cp' = [cp EXCEPT !.main = "returned", !.outcome = p.exc,
                           !.result = IF p.kind = "ok" THEN p.records ELSE NoCount]
  /\ UNCHANGED <<SeqVars, par, fn, lk>>

----------------------------------------------------------------------------
\* services/download_service.py: _lock and the accesses to _job_status, one
\* attribute read or written per step

\* the threads in run_full_download, and the thread of the status API calling
\* get_current_status and is_running
Reader == "status"
\* get_current_status, lines 491-498: the attributes in the order they are read
ReadOrder ==
  <<"state", "current_tld", "progress_percent", "total_tlds", "completed_tlds", "started_at">>
\* job_status.py: the attributes in the order start (65-69), update_progress
\* (55-58) and complete (74-76) assign them; the check of line 97 reads state
WriteOrder ==
  [check |-> <<"state">>,
   start |-> <<"state", "total_tlds", "completed_tlds", "progress_percent", "started_at">>,
   progress |-> <<"completed_tlds", "total_tlds", "current_tld", "progress_percent">>,
   complete |-> <<"state", "current_tld", "progress_percent">>]

\* a thread that does not wait for the lock
LockIgnored(lock) == TRUE
\* `with self._lock`: entered when no thread holds the lock
LockFree(lock) == lock = "none"

\* per thread in run_full_download: the section it is at ("idle", "check",
\* "start", "progress", "complete"), whether it is inside it, the accesses made
\* in it, the list length and the TLDs done; for the reader: the method, the
\* attributes read, the JobStatus being built and the value returned
LkInit ==
  [lock |-> "none",
   w |-> [t \in Callers |-> [at |-> "idle", inside |-> FALSE, n |-> 0, total |-> 0, k |-> 0,
                              was_running |-> FALSE]],
   r |-> [op |-> "none", inside |-> FALSE, n |-> 0, snap |-> JobInit, result |-> FALSE,
          returned |-> FALSE]]

LkFrame == <<client, approved, pc, was_running, tlds, idx, successful, failed,
             total_records, ret, exc, calls, processed, trace, observe, par, cp, fn>>

\* run_full_download is called for a list of `total` TLDs
LkCall(t) ==
  /\ lk.w[t].at = "idle"
  /\ \E total \in 1..MaxTlds :
       lk' = [lk EXCEPT !.w[t] = [at |-> "check", inside |-> FALSE, n |-> 0,
                                  total |-> total, k |-> 0, was_running |-> FALSE]]
  /\ UNCHANGED <<job, LkFrame>>

\* lines 96, 129, 153, 157, 184: with self._lock
LkAcquire(t) ==
  /\ lk.w[t].at # "idle" /\ ~lk.w[t].inside
  /\ LockFree(lk.lock)
  /\ lk' = [lk EXCEPT !.lock = t, !.w[t].inside = TRUE, !.w[t].n = 0]
  /\ UNCHANGED <<job, LkFrame>>

\* the value the section writes: start(len(tlds)), update_progress(i + 1,
\* len(tlds), tld) or complete()
LkTarget(j, me) ==
  CASE me.at = "start" -> JobStart(j, me.total)
    [] me.at = "progress" -> UpdateProgress(j, me.k + 1, me.total, me.k + 1)
    [] OTHER -> JobComplete(j)

\* the next attribute access of the section: the read of state by the check, or
\* one assignment of start, update_progress or complete
LkAccess(t) ==
  LET me == lk.w[t]
      attr == WriteOrder[me.at][me.n + 1]
  IN /\ me.inside /\ me.n < Len(WriteOrder[me.at])
     /\ IF me.at = "check"
        THEN /\ lk' = [lk EXCEPT !.w[t].n = @ + 1,
                                 !.w[t].was_running = (job.state = "running")]
             /\ job' = job
        ELSE /\ lk' = [lk EXCEPT !.w[t].n = @ + 1]
             /\ job' = [job EXCEPT ![attr] = LkTarget(job, me)[attr]]
     /\ UNCHANGED LkFrame

\* the end of the `with`: the lock is released and the call goes on: after the
\* check it returns (a job is running), or starts the job, or fails before the
\* start and completes it in the handler; the loop reports every TLD
LkRelease(t) ==
  LET me == lk.w[t] IN
  /\ me.inside /\ me.n = Len(WriteOrder[me.at])
  /\ \E raised \in BOOLEAN :
       LET next == CASE me.at = "check" ->
                          IF me.was_running THEN "idle"
                          ELSE IF raised THEN "complete" ELSE "start"
                     [] me.at = "start" -> "progress"
                     [] me.at = "progress" ->
                          IF raised \/ me.k + 1 = me.total THEN "complete" ELSE "progress"
                     [] OTHER -> "idle"
       IN lk' = [lk EXCEPT !.lock = IF @ = t THEN "none" ELSE @,
                           !.w[t].inside = FALSE, !.w[t].n = 0, !.w[t].at = next,
                           !.w[t].k = IF me.at = "progress" THEN @ + 1 ELSE @]
  /\ UNCHANGED <<job, LkFrame>>

\* get_current_status() or is_running() is called
LkRead ==
  /\ lk.r.op = "none" \/ lk.r.returned
  /\ \E op \in {"get_current_status", "is_running"} :
       lk' = [lk EXCEPT !.r = [op |-> op, inside |-> FALSE, n |-> 0, snap |-> JobInit,
                               result |-> FALSE, returned |-> FALSE]]
  /\ UNCHANGED <<job, LkFrame>>

\* lines 490 and 506: with self._lock
LkReadAcquire ==
  /\ lk.r.op # "none" /\ ~lk.r.inside /\ ~lk.r.returned
  /\ LockFree(lk.lock)
  /\ lk' = [lk EXCEPT !.lock = Reader, !.r.inside = TRUE]
  /\ UNCHANGED <<job, LkFrame>>

\* lines 491-498: the next attribute is read into the JobStatus being built;
\* line 507: is_running reads state
LkReadAttr ==
  /\ lk.r.inside
  /\ IF lk.r.op = "is_running"
     THEN /\ lk.r.n = 0
          /\ lk' = [lk EXCEPT !.r.n = 1, !.r.result = (job.state = "running")]
     ELSE /\ lk.r.n < Len(ReadOrder)
          /\ lk' = [lk EXCEPT !.r.n = @ + 1,
                              !.r.snap = [@ EXCEPT ![ReadOrder[lk.r.n + 1]] =
                                                      job[ReadOrder[lk.r.n + 1]]]]
  /\ UNCHANGED <<job, LkFrame>>

\* the return from inside the `with`, which releases the lock
LkReadReturn ==
  /\ lk.r.inside
  /\ lk.r.n = (IF lk.r.op = "is_running" THEN 1 ELSE Len(ReadOrder))
  /\ lk' = [lk EXCEPT !.lock = IF @ = Reader THEN "none" ELSE @,
                      !.r.inside = FALSE, !.r.returned = TRUE]
  /\ UNCHANGED <<job, LkFrame>>

RunStep(t) ==
  \/ CheckRunning(t) \/ Authenticate(t) \/ GetApprovedTlds(t) \/ StartJob(t)
  \/ DownloadTld(t) \/ TldRaises(t) \/ ReportProgress(t) \/ CompleteJob(t)
  \/ HandleException(t)

RunInit ==
  /\ client = ClientInit
  /\ job = JobInit
  /\ pc = [t \in Callers |-> "idle"]
  /\ was_running = [t \in Callers |-> FALSE]
  /\ tlds = [t \in Callers |-> <<>>]
  /\ idx = [t \in Callers |-> 0]
  /\ successful = [t \in Callers |-> 0]
  /\ failed = [t \in Callers |-> 0]
  /\ total_records = [t \in Callers |-> 0]
  /\ ret = [t \in Callers |-> NoSummary]
  /\ exc = [t \in Callers |-> "None"]
  /\ calls = [t \in Callers |-> {}]
  /\ processed = [t \in Callers |-> <<>>]
  /\ trace = [t \in Callers |-> NoTrace]
  /\ par = ParInit
  /\ cp = CpInit
  /\ fn = FnInit
  /\ lk = LkInit

\* both callers; what download_single_tld did is not recorded
Init == RunInit /\ approved \in ApprovedLists /\ observe = FALSE
Next == \E t \in Callers : RunStep(t)
Spec == Init /\ [][Next]_vars

\* one caller, with the record of what download_single_tld did
SeqInit == RunInit /\ approved \in ApprovedLists /\ observe = TRUE
SeqNext == RunStep("scheduler")
SeqSpec == SeqInit /\ [][SeqNext]_vars
\* a thread in run_full_download goes on: its requests are answered or time out
FairSeqSpec == SeqSpec /\ WF_vars(SeqNext)

\* the parallel service alone, called from two threads for the approved TLDs
ParSpecInit == RunInit /\ approved = Ascending(MaxTlds) /\ observe = FALSE
ParNext ==
  \/ \E t \in Callers : ParStart(t) \/ ParBreak(t) \/ ParReturn(t)
  \/ \E t \in Callers, tld \in TldNames : ParWorker(t, tld) \/ ParCollect(t, tld)
  \/ ParStop
ParSpec == ParSpecInit /\ [][ParNext]_vars

----------------------------------------------------------------------------
\* The client alone: calls of authenticate, get_approved_tlds and
\* download_zone_file, one request per step.

\* what an answer r carries: a Retry-After header with a 429, a body with a 200
HeadersOf(r) == IF r = "429" THEN RetryAfterHeaders ELSE {NoRetryAfter}
BodySizes(r) == IF r \in {"200", "200_mismatch"} THEN FileSizes ELSE {0}

ClientFree == client.pc \in {"idle", "done"}

CallAuthenticate ==
  ClientFree /\ client' = StartAuthenticate(client) /\ UNCHANGED RunVars
CallDownloadZoneFile ==
  /\ ClientFree
  /\ \E tld \in TldNames : client' = StartDownload(client, tld)
  /\ UNCHANGED RunVars
CallGetApprovedTlds ==
  ClientFree /\ client' = StartList(client) /\ UNCHANGED RunVars

AuthRespond ==
  /\ client.pc = "auth_post"
  /\ \E r \in AuthStatuses, aged \in BOOLEAN :
       \E hdr \in HeadersOf(r) : client' = AuthAnswered(Elapse(client, aged), r, hdr)
  /\ UNCHANGED RunVars
ZoneRespond ==
  /\ client.pc = "dl_get"
  /\ \E r \in ZoneStatuses, aged \in BOOLEAN :
       \E size \in BodySizes(r), expected \in BodySizes(r), hdr \in HeadersOf(r) :
         client' = ZoneAnswered(Elapse(client, aged), r, size, expected, hdr)
  /\ UNCHANGED RunVars
ListRespond ==
  /\ client.pc = "list_get"
  /\ \E r \in ListStatuses, aged \in BOOLEAN :
       client' = ListOnResponse(Elapse(client, aged), r, approved)
  /\ UNCHANGED RunVars

ClientNext ==
  \/ CallAuthenticate \/ CallDownloadZoneFile \/ CallGetApprovedTlds
  \/ AuthRespond \/ ZoneRespond \/ ListRespond
\* the server's list is the longest one
ClientSpecInit == RunInit /\ approved = Ascending(MaxTlds) /\ observe = TRUE
ClientSpec == ClientSpecInit /\ [][ClientNext]_vars
\* a request is answered or times out (timeout=30 and 300), and the loops go on
FairClientSpec == ClientSpec /\ WF_vars(AuthRespond \/ ZoneRespond \/ ListRespond)
----------------------------------------------------------------------------
\* The job status alone, through the calls run_full_download makes on it for a
\* list of T TLDs named 1..T: start(T), update_progress(k, T, k) for k = 1..T,
\* complete()

JobStatusStart ==
  /\ job.state = "idle"
  /\ \E total \in 1..LongListLen : job' = JobStart(job, total)
  /\ UNCHANGED <<client, approved, pc, was_running, tlds, idx, successful, failed,
                 total_records, ret, exc, calls, processed, trace, observe, par, cp, fn, lk>>

JobStatusProgress ==
  /\ job.state = "running"
  /\ job.completed_tlds < job.total_tlds
  /\ job' = UpdateProgress(job, job.completed_tlds + 1, job.total_tlds,
                           job.completed_tlds + 1)
  /\ UNCHANGED <<client, approved, pc, was_running, tlds, idx, successful, failed,
                 total_records, ret, exc, calls, processed, trace, observe, par, cp, fn, lk>>

JobStatusComplete ==
  /\ job.state = "running"
  /\ job.completed_tlds = job.total_tlds
  /\ job' = JobComplete(job)
  /\ UNCHANGED <<client, approved, pc, was_running, tlds, idx, successful, failed,
                 total_records, ret, exc, calls, processed, trace, observe, par, cp, fn, lk>>

JobNext == JobStatusStart \/ JobStatusProgress \/ JobStatusComplete
JobSpec == SeqInit /\ [][JobNext]_vars

\* the functions alone, each applied once to each of its inputs
FnNext ==
  \/ CallVerifyFileIntegrity \/ CallParseLine \/ CallParseBlankLine
  \/ CallParseZoneFile \/ CallParseZoneFileChunked
  \/ CallProcessZoneFile \/ CallInsertZoneRecords
FnSpec == ClientSpecInit /\ [][FnNext]_vars

\* a ChunkProcessor alone, in one process_chunks_parallel call
CpNext ==
  \/ CpStart \/ ProducerParse \/ ProducerPut \/ ProducerPutMarker
  \/ \E w \in Workers : ConsumerInit(w) \/ ConsumerLoop(w) \/ ConsumerGet(w) \/ ConsumerInsert(w)
  \/ CpStop \/ CpReturn
CpSpec == ClientSpecInit /\ [][CpNext]_vars

\* the JobStatus under the lock: two threads in run_full_download and one
\* asking for the status
LkNext ==
  \/ \E t \in Callers : LkCall(t) \/ LkAcquire(t) \/ LkAccess(t) \/ LkRelease(t)
  \/ LkRead \/ LkReadAcquire \/ LkReadAttr \/ LkReadReturn
LkSpec == ClientSpecInit /\ [][LkNext]_vars

----------------------------------------------------------------------------
\* Properties

\* a call is in the run body: between the check and the return or the raise
InRun(t) == pc[t] \in {"auth", "list", "start", "tld", "progress", "complete", "except"}

\* what a caller holds of its call
Local(t) ==
  <<pc[t], was_running[t], tlds[t], idx[t], successful[t], failed[t], total_records[t],
    ret[t], exc[t], calls[t], processed[t], trace[t]>>

\* C1: of the concurrent run_full_download calls on one DownloadService at most
\* one is executing the run body at any time
C1_AtMostOneInRunBody == Cardinality({t \in Callers : InRun(t)}) <= 1

\* a call that found the job running has returned None and invoked nothing
Rejected(t) == pc[t] = "returned" /\ ret[t] = NoSummary /\ calls[t] = {}

\* C2 (as the code has it): a call made while the job is running returns None,
\* invokes no method of the client or the storage and leaves the job status and
\* the client as they are; a call made while the job is idle proceeds to
\* authenticate, and when it returns it returns a DownloadSummary, and when it
\* does not return it raises the exception that left the run body
C2_RejectedWhenRunningElseProceeds ==
  /\ [](\A t \in Callers :
          /\ was_running[t] => Rejected(t)
          /\ ~was_running[t] /\ pc[t] # "idle" =>
               /\ pc[t] = "auth" \/ "authenticate" \in calls[t]
               /\ pc[t] = "returned" => ret[t].kind = "summary"
               /\ pc[t] = "raised" => exc[t] # "None" /\ ret[t] = NoSummary)
  /\ [][\A t \in Callers :
          Idle(t) /\ job.state = "running" /\ Local(t)' # Local(t) =>
            job' = job /\ client' = client /\ was_running'[t] /\ Rejected(t)']_vars

\* C2 (as stated): ... and a call made while the job is idle returns a
\* DownloadSummary
C2_IdleCallReturnsSummary ==
  \A t \in Callers :
    /\ was_running[t] => Rejected(t)
    /\ ~was_running[t] /\ pc[t] \in {"returned", "raised"} =>
         pc[t] = "returned" /\ ret[t].kind = "summary"

\* a call was rejected while another went on to return its summary
C2_Witness ==
  \E t, u \in Callers :
    /\ was_running[t] /\ Rejected(t)
    /\ ~was_running[u] /\ pc[u] = "returned" /\ ret[u].kind = "summary" /\ tlds[u] # <<>>

\* C3: a run that has set the job running sets it back to idle, on the normal
\* end and when an exception leaves the loop over the TLDs; when the exception
\* is raised to the caller the job is idle already
C3_RunningLeadsToIdle ==
  /\ (job.state = "running") ~> (job.state = "idle")
  /\ [][\A t \in Callers : pc[t] # "raised" /\ pc'[t] = "raised" => job'.state = "idle"]_vars

\* an exception left the loop after a TLD was done, and was raised to the caller
C3_Witness ==
  \E t \in Callers :
    pc[t] = "raised" /\ exc[t] = "Unexpected" /\ idx[t] > 0 /\ job.state = "idle"

\* C4: while the job of a sequential run is running started_at is set, and when
\* k of T TLDs are done completed_tlds = k, current_tld is the k-th TLD and
\* progress_percent = floor(k/T*100), so that 0 <= progress_percent <= 100 and
\* completed_tlds <= total_tlds
C4_ProgressIsFloor ==
  job.state = "running" =>
    /\ job.started_at = "set"
    /\ job.completed_tlds <= job.total_tlds
    /\ job.completed_tlds > 0 => job.current_tld = job.completed_tlds
    /\ job.progress_percent = (100 * job.completed_tlds) \div job.total_tlds
    /\ job.progress_percent \in 0..100

\* C5: once a run over a non-empty list has completed the job is idle with
\* progress_percent 100 and no current_tld: the job goes idle -> running by
\* start, through the progress updates, and running -> idle by complete, so
\* that after a completed run the job, while idle, is as complete left it
C5_IdleAfterRunIsComplete ==
  (\E t \in Callers : pc[t] = "returned" /\ tlds[t] # <<>>) /\ job.state = "idle" =>
    job.progress_percent = 100 /\ job.current_tld = 0

\* C6: a TLD whose download, parsing or insert fails does not end the run: the
\* TLDs handed to download_single_tld are the approved list's, once each and
\* in its order, and the run returns its summary
C6_FailedTldDoesNotAbort ==
  /\ [](\A t \in Callers :
          /\ Len(processed[t]) <= Len(tlds[t])
          /\ processed[t] = SubSeq(tlds[t], 1, Len(processed[t]))
          /\ successful[t] + failed[t] = Len(processed[t])
          /\ pc[t] = "returned" /\ ~was_running[t] =>
               /\ processed[t] = tlds[t]
               /\ ret[t] = DownloadSummary(Len(tlds[t]), successful[t], failed[t],
                                           total_records[t]))
  /\ [][\A t \in Callers : failed'[t] > failed[t] => pc'[t] = "progress"]_vars

\* a run with a failed TLD and a successful one has returned
C6_Witness ==
  \E t \in Callers :
    /\ pc[t] = "returned" /\ ret[t].failed_tlds > 0 /\ ret[t].successful_tlds > 0
    /\ trace[t].caught \in {"ParseError", "StorageError", "DownloadError"}

\* C7: an AuthenticationError ends the run: when authentication fails, at the
\* first authenticate or at one made while a TLD is downloaded, the run is
\* aborted and the error raised to the caller
C7_AuthenticationErrorAborts ==
  \A t \in Callers :
    exc[t] = "AuthenticationError" \/ trace[t].caught = "AuthenticationError" =>
      pc[t] \in {"except", "raised"}

\* C8: download_zone_file never raises: it returns a DownloadResult, failed
\* with an error message when the download did not succeed
C8_DownloadNeverRaises ==
  client.op = "download_zone_file" /\ client.pc = "done" =>
    /\ client.out.kind = "return"
    /\ \/ client.out.result.status = "success"
       \/ client.out.result.status = "failed" /\ client.out.result.error_message # NoMsg

\* C9: a 404 for a TLD's zone file is final for the TLD: no request follows it,
\* the result recorded for the TLD is failed with a message naming the TLD,
\* nothing is parsed or inserted for it, and the run goes on
C9_NotFoundIsPermanent ==
  /\ [](\A t \in Callers :
          trace[t].notfound =>
            /\ trace[t].after_notfound = 0
            /\ trace[t].result.status = "failed"
            /\ trace[t].result.error_message.tld = trace[t].tld
            /\ trace[t].tld = processed[t][Len(processed[t])]
            /\ ~trace[t].parsed /\ trace[t].inserts = 0)
  /\ [][\A t \in Callers :
          trace'[t].notfound /\ processed'[t] # processed[t] =>
            pc'[t] = "progress" /\ failed'[t] = failed[t] + 1]_vars

\* after a 404 for the first TLD the run is at the second
C9_Witness ==
  \E t \in Callers :
    trace[t].notfound /\ pc[t] = "tld" /\ idx[t] = 1 /\ trace[t].tld = tlds[t][1]

\* C10: a call of authenticate issues at most max_retries POSTs and a call of
\* download_zone_file at most max_retries GETs, and every call ends
C10_BoundedRequests ==
  /\ [](client.gets <= MaxRetries /\ client.posts <= MaxRetries)
  /\ (client.pc \notin {"idle", "done"}) ~> (client.pc = "done")

\* a download has ended after max_retries GETs, and an authentication after
\* max_retries POSTs
C10_Witness ==
  /\ client.pc = "done" /\ client.posts = MaxRetries
  /\ \/ client.op = "download_zone_file" /\ client.gets = MaxRetries
     \/ client.op = "authenticate"

\* the failures the retry loops take for generic ones
GenericFailures == {"500", "timeout", "neterr"}

\* the last answers to the requests of authenticate and of download_zone_file
Waits == {client.au, client.dl}

\* C11: after a generic failure at attempt k that is not the last the client
\* sleeps min(base_delay * 2^k, max_delay) before the next request, and after
\* the last attempt it does not sleep; the delay is base_delay for k = 0, does
\* not decrease with k and is at most max_delay
C11_BackoffIsCappedExponential ==
  /\ \A w \in Waits :
       w.r \in GenericFailures =>
         IF w.k < MaxRetries - 1
         THEN /\ w.by = "backoff"
              /\ w.secs = (IF BaseDelay * Pow2(w.k) < MaxDelay THEN BaseDelay * Pow2(w.k)
                           ELSE MaxDelay)
         ELSE w.by = "none" /\ w.secs = 0
  /\ CalculateBackoffDelay(0) = BaseDelay
  /\ \A k \in 0..MaxAttempt :
       /\ CalculateBackoffDelay(k) <= MaxDelay
       /\ CalculateBackoffDelay(k) <= CalculateBackoffDelay(k + 1)
       /\ BaseDelay * Pow2(k) <= MaxDelay => CalculateBackoffDelay(k) = BaseDelay * Pow2(k)
       /\ BaseDelay * Pow2(k) > MaxDelay => CalculateBackoffDelay(k) = MaxDelay

\* the second GET has failed and the client has slept 2 s before the third, and
\* another loop has ended on a failed last attempt
C11_Witness ==
  /\ client.pc = "dl_get" /\ client.dl.r = "500" /\ client.dl.k = 1
  /\ client.dl.secs = 2 * BaseDelay /\ client.attempt = 2

C14_AuthenticateFailsTerminally ==
  /\ client.au.r = "401" =>
       /\ client.pc = "done" /\ client.au.by = "none"
       /\ client.out.kind = "raise" /\ client.out.exc = "AuthenticationError"
       /\ client.out.msg.text = "Invalid ICANN credentials"
  /\ client.op = "authenticate" /\ client.pc = "done" =>
       /\ client.au.r = "200" <=> client.out.kind = "return"
       /\ client.au.r \notin {"200", "401"} =>
            /\ client.posts = MaxRetries
            /\ client.out.exc = "AuthenticationError"
            /\ client.out.msg.text = "Authentication failed after attempts"

\* authenticate has raised after three failed requests
C14_Witness ==
  /\ client.op = "authenticate" /\ client.pc = "done" /\ client.posts = MaxRetries
  /\ client.au.r = "timeout" /\ client.out.exc = "AuthenticationError"

\* C15: a 401 answer to the request of the TLD list makes get_approved_tlds
\* reauthenticate and request again: the call does not fail for the 401
C15_ListReauthenticatesOn401 ==
  client.op = "get_approved_tlds" /\ client.pc = "done" =>
    ~(client.out.kind = "raise" /\ client.out.exc = "AuthenticationError"
      /\ client.out.msg.text = "Token expired or invalid")

\* C16: download_zone_file succeeds only with as many bytes written as
\* Content-Length says, when the header is there and not zero; on a mismatch
\* the file is removed and the call fails
C16_SuccessOnlyWithMatchingSize ==
  client.op = "download_zone_file" /\ client.pc = "done" =>
    /\ client.out.kind = "return" /\ client.out.result.status = "success" =>
         /\ client.body.expected_size > 0 =>
              client.body.actual_size = client.body.expected_size
         /\ client.out.result.file_size = client.body.actual_size
         /\ client.body.on_disk
    /\ client.body.expected_size > 0
         /\ client.body.actual_size # client.body.expected_size =>
         /\ ~client.body.on_disk
         /\ client.out.kind = "raise" \/ client.out.result.status = "failed"

\* a body shorter than its Content-Length was written, removed, and the call failed
C16_Witness ==
  /\ client.op = "download_zone_file" /\ client.pc = "done"
  /\ client.body.expected_size = 2 /\ client.body.actual_size = 1
  /\ ~client.body.on_disk /\ client.out.msg.text = "File size mismatch"

\* C17: for every TLD of a run exactly one DownloadLog is handed to
\* log_download, with the status and the error message of the TLD's result,
\* whether the TLD succeeded or failed
C17_OneDownloadLogPerTld ==
  \A t \in Callers :
    /\ trace[t].log_downloads = Len(processed[t])
    /\ trace[t].tld # 0 =>
         /\ Len(trace[t].logs) = 1
         /\ trace[t].logs[1] = DownloadLog(trace[t].tld, trace[t].result)
         /\ trace[t].logs[1].tld = processed[t][Len(processed[t])]
         /\ trace[t].logs[1].status \in {"success", "failed"}
         /\ trace[t].logs[1].status = "failed" => trace[t].logs[1].error_message # NoMsg
    /\ pc[t] = "returned" /\ ~was_running[t] => trace[t].log_downloads = Len(tlds[t])

\* a run of two TLDs has returned, one logged as a success and one as a failure
C17_Witness ==
  \E t \in Callers :
    /\ pc[t] = "returned" /\ trace[t].log_downloads = 2 /\ trace[t].logged_ok = 1
    /\ trace[t].logs[1].status = "failed"

\* C19: in the summary a run returns successful_tlds + failed_tlds = total_tlds
\* = the length of the approved list, and total_records is the sum of the
\* records_count of the successful TLDs, the records parsed and inserted
C19_SummaryAddsUp ==
  \A t \in Callers :
    pc[t] = "returned" /\ ret[t].kind = "summary" =>
      /\ ret[t].successful_tlds + ret[t].failed_tlds = ret[t].total_tlds
      /\ ret[t].total_tlds = Len(tlds[t]) /\ tlds[t] = approved
      /\ ret[t].successful_tlds = trace[t].logged_ok
      /\ ret[t].total_records = trace[t].logged_records

\* a run has returned with two successful TLDs and more records than one file has
C19_Witness ==
  \E t \in Callers :
    /\ pc[t] = "returned" /\ ret[t].successful_tlds > 1 /\ ret[t].total_records > MaxRecords
    /\ ret[t].total_records = trace[t].logged_records

\* C18: when download_tlds_parallel has returned, every TLD it was passed has
\* had a DownloadLog handed to log_download, whether its download or its
\* processing failed or it succeeded
C18_EveryParallelOutcomeLogged ==
  \A t \in Callers :
    par.pc[t] = "returned" =>
      \A i \in DOMAIN par.tlds[t] : Len(par.logs[t][par.tlds[t][i]]) = 1

\* C20: while one download_tlds_parallel call is in progress no other call on
\* the same service is in progress
C20_OneParallelRunAtATime ==
  Cardinality({t \in Callers : par.pc[t] \in {"running", "stopped"}}) <= 1

\* a line '<domain> <ttl> IN <TYPE> <rdata>' with a supported type in any case
WellFormedLine(a) ==
  /\ a.domain # <<>> /\ Head(a.domain) \notin {";", "$"}
  /\ a.blank # <<>>
  /\ a.ttl # <<>> /\ \A i \in DOMAIN a.ttl : IsDigit(a.ttl[i])
  /\ Upper(a.class) = <<"I", "N">>
  /\ Upper(a.type) \in SupportedRecordTypes
  /\ a.data # <<>>

\* C26: a line '<domain>. <ttl> IN <TYPE> <rdata>' with a supported type in any
\* letter case gives one record, with the domain and the data without their
\* trailing dots, the TTL as an integer and the type in upper case; blank lines,
\* lines starting with ';' or '$', lines of another form and unsupported types
\* give no record
C26_ParseLineRecord ==
  fn.op = "_parse_line" =>
    IF WellFormedLine(fn.args)
    THEN fn.result = ZoneRecord(RStrip(fn.args.domain, {"."}), Upper(fn.args.type),
                                RStrip(fn.args.data, {"."}), ToInt(fn.args.ttl))
    ELSE fn.result = NoRecord

\* a line with its type in lower case, a dot after the domain and after the data
\* and leading zeros in its TTL has given a record
C26_Witness ==
  /\ fn.op = "_parse_line" /\ fn.result # NoRecord
  /\ fn.args.type = <<"n", "s">> /\ fn.result.record_type = <<"N", "S">>
  /\ fn.args.domain = <<"e", "x", ".">> /\ fn.result.domain_name = <<"e", "x">>
  /\ fn.args.ttl = <<"0", "0", "7">> /\ fn.result.ttl = 7
  /\ fn.result.record_data = <<"n", "s", ".", "e", "x">>

\* C27: verify_file_integrity returns a boolean, TRUE exactly when the file
\* exists and its size on disk is the expected size
C27_VerifyFileIntegrity ==
  fn.op = "verify_file_integrity" =>
    /\ fn.result \in BOOLEAN
    /\ fn.result <=> (fn.args.exists /\ fn.args.actual_size = fn.args.expected_size)

\* an empty file has been checked against a nonzero expected size
C27_Witness ==
  /\ fn.op = "verify_file_integrity" /\ fn.args.exists /\ fn.args.actual_size = 0
  /\ fn.args.expected_size > 0 /\ fn.result = FALSE

\* the chunks one after the other
RECURSIVE Concat(_)
Concat(chunks) == IF chunks = <<>> THEN <<>> ELSE Head(chunks).chunk \o Concat(Tail(chunks))
IsPrefix(a, b) == Len(a) <= Len(b) /\ SubSeq(b, 1, Len(a)) = a

\* C25 as amended: parse_zone_file_chunked ends as parse_zone_file does; no chunk
\* is empty, every chunk but the last has chunk_size records and the chunks are
\* numbered 1, 2, ..., k.  For a file read to its end the chunks one after the
\* other are the records parse_zone_file yields; when the read fails they are
\* the longest prefix of these records that is a whole number of chunks
C25_ChunksOfReadableFile ==
  fn.op = "parse_zone_file_chunked" =>
    LET whole == ParseZoneFile(fn.args.file)
        chunks == fn.result.chunks
        size == fn.args.chunk_size
    IN /\ fn.result.raised = whole.raised
       /\ \A i \in DOMAIN chunks :
            /\ chunks[i].chunk_number = i
            /\ chunks[i].chunk # <<>>
            /\ i < Len(chunks) \/ whole.raised # "None" => Len(chunks[i].chunk) = size
            /\ Len(chunks[i].chunk) <= size
       /\ IsPrefix(Concat(chunks), whole.records)
       /\ whole.raised = "None" => Concat(chunks) = whole.records
       /\ whole.raised # "None" => Len(whole.records) - Len(Concat(chunks)) < size

\* a file read to its end has given a full chunk and a smaller last one
C25_Witness ==
  /\ fn.op = "parse_zone_file_chunked" /\ fn.result.raised = "None"
  /\ Len(fn.result.chunks) = 2 /\ fn.args.chunk_size = 2
  /\ Len(fn.result.chunks[2].chunk) = 1
  /\ Len(fn.args.file.lines) > 3

\* C25: for any file the chunks one after the other are the records
\* parse_zone_file yields
C25_ChunksOfAnyFile ==
  fn.op = "parse_zone_file_chunked" =>
    Concat(fn.result.chunks) = ParseZoneFile(fn.args.file).records

\* C23: for a file that parses to N records _process_zone_file with batch size
\* B makes ceil(N/B) insert calls, none for N = 0; its batches are the
\* consecutive slices of the records in parse order, of B records each but the
\* last, which has the N mod B left (B when that is 0)
C23_BatchesAreConsecutiveSlices ==
  fn.op = "_process_zone_file" =>
    LET records == ParseZoneFile(fn.args.file).records
        N == Len(records)
        B == fn.args.batch_size
        batches == fn.result.batches
        counted == ProcessFile(0, N, fn.args.file.bad_at # NoReadError, fn.args.failAt, B)
    IN /\ \A i \in DOMAIN batches :
            batches[i] = SubSeq(records, (i - 1) * B + 1, IF i * B < N THEN i * B ELSE N)
       /\ fn.result.raised = "None" =>
            /\ Len(batches) = (N + B - 1) \div B
            /\ fn.result.total_records = N
            /\ N > 0 => Len(batches[Len(batches)]) = (IF N % B = 0 THEN B ELSE N % B)
       /\ counted.inserts = Len(batches) /\ counted.records = fn.result.total_records
       /\ (counted.kind = "ok") = (fn.result.raised = "None")

\* a file of four records has been stored with batch size three: two insert calls
C23_Witness ==
  /\ fn.op = "_process_zone_file" /\ fn.result.raised = "None"
  /\ fn.args.batch_size = 3 /\ fn.result.total_records = 4
  /\ Len(fn.result.batches) = 2 /\ Len(fn.result.batches[2]) = 1

\* C24: insert_zone_records sends the records in consecutive batches of
\* batch_size records, only the last one smaller, all of them together being the
\* records; for no records it makes no database call and returns 0
C24_InsertsInBatches ==
  fn.op = "insert_zone_records" /\ fn.result.returned # NoCount =>
    LET sent == fn.result.sent
    IN /\ \A i \in DOMAIN sent :
            /\ Len(sent[i]) <= fn.args.batch_size
            /\ i < Len(sent) => Len(sent[i]) = fn.args.batch_size
       /\ RecordsIn(sent) = Len(fn.args.records)
       /\ fn.args.records = <<>> => fn.result.executes = 0 /\ fn.result.returned = 0

\* a thread of process_chunks_parallel can take a step
ThreadCanStep ==
  \/ cp.producer.pc = "parse"
  \/ cp.producer.pc \in {"put", "markers"} /\ PutGoesThrough(cp.queue)
  \/ \E w \in Workers :
       \/ cp.consumer[w].pc \in {"init", "loop", "insert"}
       \/ cp.consumer[w].pc = "get" /\ cp.queue # <<>>
AllJoined ==
  cp.producer.pc = "done" /\ \A w \in Workers : cp.consumer[w].pc \in {"done", "dead"}
\* the call can never return: a thread is left blocked on the queue for good
CpStuck == cp.main = "running" /\ ~AllJoined /\ ~ThreadCanStep

\* C21: when the producer's parser has raised, the call does not return its
\* totals as for a file processed: the error reaches the caller
C21_ParseErrorPropagates ==
  cp.main = "returned" /\ cp.producer.raised => cp.outcome # "None"

\* C22: after stop() the call still comes to return: no thread is left blocked
\* on the full or the empty queue, every consumer having got its storage handle
C22_StopTerminates ==
  cp.stop_event /\ (\A w \in Workers : cp.consumer[w].pc # "dead") => ~CpStuck

\* C28: whatever the storage does, a consumer failing to get its handle
\* included, no thread is left blocked on the queue and the call comes to return
C28_AlwaysTerminates ==
  ~cp.stop_event => ~CpStuck

Uncancelled ==
  ~cp.stop_event /\ \A w \in Workers : cp.consumer[w].pc # "dead"

\* what does hold of the markers and the chunks: every chunk is taken by at most
\* one consumer, the markers are queued after the last chunk, and num_workers of
\* them once the producer is done.  In a call that is not stopped and whose
\* consumers all got their storage handle, a consumer ends only on taking a
\* marker, exactly one, with no chunk left in the queue, and when the call
\* returns every chunk the producer queued has been handled exactly once
MarkersAndChunks ==
  /\ \A n \in 1..MaxChunks : cp.handled[n] <= 1
  /\ \A i, j \in DOMAIN cp.queue : i < j /\ cp.queue[i] = Marker => cp.queue[j] = Marker
  /\ cp.producer.pc = "done" => cp.producer.markers = NumWorkers
  /\ cp.producer.pc \in {"parse", "put"} => cp.producer.markers = 0
  /\ Uncancelled =>
       /\ \A w \in Workers :
            /\ cp.consumer[w].markers = (IF cp.consumer[w].pc = "done" THEN 1 ELSE 0)
            /\ cp.consumer[w].pc = "done" => \A i \in DOMAIN cp.queue : cp.queue[i] = Marker
       /\ cp.main = "returned" =>
            /\ \A n \in 1..MaxChunks :
                 cp.handled[n] = (IF n <= cp.producer.queued THEN 1 ELSE 0)
            /\ cp.producer.queued = cp.producer.yielded
            /\ cp.chunks_processed = cp.producer.queued
            /\ cp.queue = <<>>

\* a call over more chunks than the queue holds has returned, not stopped, each
\* consumer having taken its marker
MarkersAndChunksReached ==
  /\ cp.main = "returned" /\ Uncancelled /\ cp.nchunks > MaxSize
  /\ cp.chunks_processed = cp.nchunks
  /\ \A w \in Workers : cp.consumer[w].markers = 1

\* C29: in a call that nobody stops, every chunk the producer queues is handled
\* by exactly one consumer by the time the call returns, and every consumer that
\* ends has taken exactly one marker, no chunk being left queued
C29_NoChunkLost ==
  ~cp.stop_event =>
    /\ cp.main = "returned" =>
         \A n \in 1..MaxChunks : cp.handled[n] = (IF n <= cp.producer.queued THEN 1 ELSE 0)
    /\ \A w \in Workers :
         cp.consumer[w].pc = "done" =>
           /\ cp.consumer[w].markers = 1
           /\ \A i \in DOMAIN cp.queue : cp.queue[i] = Marker

\* C30: the queue never holds more than 2 * num_workers items, chunks and
\* markers together
C30_QueueBounded ==
  Len(cp.queue) <= 2 * NumWorkers

\* the queue is full of chunks and the producer waits in put with the next one
C30_Witness ==
  /\ Len(cp.queue) = 2 * NumWorkers /\ cp.producer.pc = "put"
  /\ \A i \in DOMAIN cp.queue : cp.queue[i] # Marker

\* C31: the total_records that process_chunks_parallel returns is the number of
\* records whose insert went through; a chunk whose attempts all failed is not
\* counted
C31_TotalIsInserted ==
  cp.main = "returned" /\ cp.result # NoCount => cp.result = cp.inserted_records

\* the seconds slept before attempts 2, 3, ... of `attempts` attempts
Backoff(attempts) == [i \in 1..(attempts - 1) |-> i]

\* C32: a consumer calls insert for a chunk at most 3 times, sleeping 1 s and
\* then 2 s between the calls; when all 3 fail it appends one entry to errors
\* and goes back to the queue, so that a call which is not cut short handles
\* every chunk queued whatever inserts failed
C32_ThreeAttemptsThenNext ==
  /\ \A w \in Workers :
       LET last == cp.consumer[w].last
       IN last # NoInsert =>
            /\ last.attempts \in 1..3
            /\ last.sleeps = Backoff(last.attempts)
            /\ last.inserted \/ last.attempts = 3
            /\ last.errors = (IF last.inserted THEN 0 ELSE 1)
            /\ cp.consumer[w].pc = "loop"
  /\ cp.main = "returned" /\ Uncancelled =>
       /\ cp.chunks_processed = cp.producer.queued
       /\ \A n \in 1..MaxChunks : n <= cp.producer.queued => cp.handled[n] = 1

\* a call over more than two chunks, not cut short, has returned: an insert
\* failed for good on the way and every chunk was handled all the same
C32_Witness ==
  /\ cp.main = "returned" /\ Uncancelled /\ ~cp.producer.raised
  /\ cp.errors > 0 /\ cp.nchunks > 2 /\ cp.chunks_processed = cp.nchunks
  /\ cp.inserted_records > 0

C34_FiveAttemptsFreshConnection ==
  fn.op = "insert_zone_records" =>
    LET res == fn.result
        nfailed == IF res.returned = NoCount THEN res.executes ELSE res.executes - 1
    IN /\ res.executes <= 5
       /\ ~res.locked
       /\ fn.args.records # <<>> =>
            /\ res.reconnects = nfailed
            /\ nfailed = (IF fn.args.nfail < 5 THEN fn.args.nfail ELSE 5)
            /\ res.returned = (IF fn.args.nfail < 5 THEN Len(fn.args.records) ELSE NoCount)
            /\ res.sleeps = Backoff(IF nfailed < 5 THEN nfailed + 1 ELSE 5)
       /\ fn.args.records = <<>> => res.returned = 0 /\ res.executes = 0

\* a call with records has raised after five executes and five new connections
C34_Witness ==
  /\ fn.op = "insert_zone_records" /\ fn.args.records # <<>>
  /\ fn.result.returned = NoCount /\ fn.result.executes = 5 /\ fn.result.reconnects = 5
  /\ ~fn.result.locked

\* C36: a run_full_download call that fails before the job is started, in
\* authenticate or in get_approved_tlds, leaves the JobStatus as it was: on a
\* service that has never started a job, as it was made
C36_FailedStartLeavesStatus ==
  \A t \in Callers :
    pc[t] = "raised" /\ tlds[t] = <<>> /\ job.started_at = "None" => job = JobInit

\* C37: after download_single_tld has ended in a failed result for a TLD, the
\* download or the parse having failed, the records stored for the TLD before
\* are still there
C37_OldRecordsKeptOnFailure ==
  \A t \in Callers :
    trace[t].tld # 0 /\ trace[t].result.status = "failed" /\ trace[t].stored = 0 =>
      ~trace[t].old_deleted

\* C39: when download_single_tld has returned for a TLD whose zone file was
\* downloaded, the file is not in temp_dir any more, also when parsing or
\* inserting failed
C39_FileRemovedAfterReturn ==
  \A t \in Callers : trace[t].tld # 0 /\ trace[t].downloaded => ~trace[t].file_left

\* C40: a failed result that download_zone_file returns after its attempts
\* names the cause of a failed attempt: last_error is not the unset value
C40_ExhaustedNamesCause ==
  /\ client.op = "download_zone_file" /\ client.pc = "done"
  /\ client.out.kind = "return" /\ client.out.result.status = "failed"
  /\ client.out.result.error_message.text = "Download failed after attempts"
  => client.out.result.error_message.cause # "None"

\* C38: for every TLD for which the parallel service has written a DownloadLog,
\* the log's status is success exactly when the result returned for the TLD
\* has success = True
C38_LogStatusMatchesResult ==
  \A t \in Callers, tld \in TldNames :
    par.futures[t][tld] = "done" /\ par.logs[t][tld] # <<>> =>
      (par.logs[t][tld][1].status = "success") = par.returned[t][tld].success

\* a thread in run_full_download is half way through start, update_progress or
\* complete: some of the attributes are assigned and some are not yet
MidWrite ==
  \E t \in Callers :
    lk.w[t].inside /\ lk.w[t].at # "check" /\ lk.w[t].n \in 1..(Len(WriteOrder[lk.w[t].at]) - 1)

\* C33: every access to the JobStatus by run_full_download, is_running and
\* get_current_status is made holding the lock, by one thread at a time; the
\* JobStatus that get_current_status has built is the one the service holds at
\* that instant, never one a thread is half way through changing, and
\* is_running returns whether the state is running at the instant it reads it
C33_StatusReadUnderLock ==
  /\ \A t \in Callers : lk.w[t].inside => lk.lock = t
  /\ lk.r.inside => lk.lock = Reader /\ ~MidWrite
  /\ lk.r.inside /\ lk.r.op = "get_current_status" =>
       /\ \A i \in 1..lk.r.n : lk.r.snap[ReadOrder[i]] = job[ReadOrder[i]]
       /\ lk.r.n = Len(ReadOrder) => lk.r.snap = job
  /\ lk.r.inside /\ lk.r.op = "is_running" /\ lk.r.n = 1 =>
       lk.r.result = (job.state = "running")
  /\ lk.r.result \in BOOLEAN

\* get_current_status has built the status of a job in progress, read while a
\* thread in run_full_download waits for the lock to report the next TLD
C33_Witness ==
  /\ lk.r.inside /\ lk.r.op = "get_current_status" /\ lk.r.n = Len(ReadOrder)
  /\ lk.r.snap.state = "running" /\ lk.r.snap.completed_tlds = 1
  /\ \E t \in Callers : lk.w[t].at = "progress" /\ ~lk.w[t].inside /\ lk.w[t].k = 1

====
